---- MODULE Spec2Model ----
(***************************************************************************)
(* Model of the Glean.js task dispatchers.                                 *)
(*                                                                         *)
(*   Dispatcher      (src/glean/src/core/dispatcher/async.ts:26-311)       *)
(*   DispatcherSync  (src/glean/src/core/dispatcher/async.ts:341-632)      *)
(*                                                                         *)
(* JavaScript runs every synchronous segment to completion, so one action  *)
(* of the model is one such segment: a public method call together with    *)
(* everything it calls synchronously, or one job of the microtask queue    *)
(* (the continuation of execute() after an awaited task, the .then()       *)
(* callback of triggerExecution, the continuation of testUninitialize).    *)
(* Promise reaction jobs run in the order in which they were queued, so    *)
(* the microtask queue is a FIFO sequence.                                 *)
(***************************************************************************)
EXTENDS Integers, Sequences, FiniteSets, TLC

\* Number of task identifiers the callers may use (launch, launchPersistent,
\* testLaunch and the task of flushInit each consume one).
MaxTasks == 3
\* Longest queue at which a caller still issues stop/clear/shutdown.
MaxQueue == 2
\* Most microtask jobs pending when a caller makes a further call.
MaxMicro == 1
\* Constructor argument maxPreInitQueueSize (default 100), scaled down.
maxPreInitQueueSize == 1
\* The error counter of a metric is followed up to this value.
MaxErrors == 1
\* Number of storage entries that hold a corrupted value at a time.
MaxCorrupt == 1
\* Number of metric values recorded for the ping.
MaxStamp == 2
\* Number of collections of the ping that build a ping_info section between
\* two clearAll calls, and number of pings recorded in the pings database.
MaxPings == 3
\* Last tick of the clock.
MaxClock == 2
\* Number of clearAll calls.
MaxEpoch == 1

TaskCommands == {"Task", "TestTask", "PersistentTask", "InitTask"}
Commands == TaskCommands \cup {"Stop", "Clear", "Shutdown"}
DispatcherState == {"Uninitialized", "Idle", "Processing", "Stopped", "Shutdown"}

Ids == 1..MaxTasks

VARIABLES
  \* ---- Dispatcher (async) ----
  queue,         \* Dispatcher.queue: sequence of [cmd, id]
  state,         \* Dispatcher.state
  shuttingDown,  \* Dispatcher.shuttingDown
  jobDone,       \* whether the promise held in Dispatcher.currentJob is settled
  inflight,      \* execute() invocations suspended at `await executeTask(task)`
  micro,         \* the microtask queue (FIFO of promise reaction jobs)
  \* ---- bookkeeping about the tasks handed to the dispatcher ----
  nextId,        \* next unused task identifier
  task,          \* id -> [kind, st]: what became of each task
  resolved,      \* TestTask ids whose resolver has been called
  shutFrom,      \* first task id launched after the first accepted shutdown(), 0 if none
  initFailed,    \* an InitTask has failed since the last flushInit
  ev             \* what the last step did: the call it was ("callClear", "callShutdown"),
                 \* the commands execute() went through ("clear", "shutdown", "stop"),
                 \* a failed task ("taskfail"; "initfail" for the InitTask), a resume()
                 \* that found the dispatcher stopped ("resume"), the reset of
                 \* testUninitialize ("uninit")

avars == <<queue, state, shuttingDown, jobDone, inflight, micro,
           nextId, task, resolved, shutFrom, initFailed, ev>>

VARIABLES
  \* ---- DispatcherSync ----
  syncQueue,          \* DispatcherSync.queue
  preInitQueue,       \* DispatcherSync.preInitQueue
  syncState,          \* DispatcherSync.state
  syncShuttingDown,   \* DispatcherSync.shuttingDown
  contextInitialized, \* Context.initialized
  \* ---- bookkeeping about the tasks handed to the sync dispatcher ----
  syncNextId,         \* next unused task identifier
  syncTask,           \* id -> [kind, st]
  syncOrder,          \* the ids of the executed tasks, in execution order
  syncResolved,       \* TestTask ids whose resolver has been called
  syncInitFailed,     \* an InitTask has failed
  syncEv              \* what the last step did, as for ev

svars == <<syncQueue, preInitQueue, syncState, syncShuttingDown, contextInitialized,
           syncNextId, syncTask, syncOrder, syncResolved, syncInitFailed, syncEv>>

VARIABLES
  \* ---- MetricsDatabase, for one boolean metric identifier ----
  dbStore,   \* lifetime -> ping -> the value stored under [ping, "boolean", identifier]
  dbErrors,  \* ping -> the glean.error counter of the metric (ping lifetime)
  dbCall     \* the last call: [op, lifetime, ping, disabled, ret, log]; log tells
             \* whether getMetric logged "Unexpected value found"

dvars == <<dbStore, dbErrors, dbCall>>

VARIABLES
  \* ---- Glean (core/glean/async.ts) with the Context and what is stored ----
  glean      \* [initialized, uploadEnabled, config: Context fields;
             \*  clientId, firstRunDate, userData: the stored client_id and
             \*  first_run_date metrics and whether any other metric is stored;
             \*  pending: pings wait in the pings database / upload queue;
             \*  body: id -> [kind, flag], the function launched as task id;
             \*  run, pc: the task whose body is executing and where it stands;
             \*  saved: the local firstRunDate of clearMetrics;
             \*  call, submitted: the API call the last step made and the
             \*  client_id of the ping it enqueued ("no": none enqueued);
             \*  fresh, enabledSince, delSent, prevDate: history (see NoGlean)]

gvars == <<glean>>

VARIABLES
  \* ---- the metrics, events and pings of one ping name (pings maker) ----
  pm         \* [store: metric -> the value stored for the ping (0: none);
             \*  events: events are stored for the ping;
             \*  seqStored: the stored <ping>#sequence counter (0: none);
             \*  startStored: the stored <ping>#start date, if any;
             \*  now: the clock; stamp: the last value recorded;
             \*  recorded: the payloads handed to pingsDatabase.recordPing;
             \*  epoch, built: history (see NoPing)]

pvars == <<pm>>

VARIABLES
  \* ---- a PrecomputedExponential bucketing and a timing distribution ----
  bk,        \* [min, max, bucketCount: the constructor's arguments;
             \*  bucketRanges: the cached ranges (<<>>: not computed yet);
             \*  sample, limit, ret: the last sampleToBucketMinimum call]
  td         \* [startTimes: timer id -> start time (0: none); nextTimer;
             \*  now: the clock; state, queue: the dispatcher and its waiting
             \*  tasks; uploadEnabled; stored: bucket minimum -> count, the
             \*  value stored for the metric; errors: error type -> count;
             \*  launched, accumulated, cancelled, last: history (see NoTiming)]

hvars == <<bk, td>>

vars == <<avars, svars, dvars, gvars, pvars, hvars>>

(***************************************************************************)
(* Dispatcher (async): the methods as operators on a record of its fields. *)
(***************************************************************************)

\* The dispatcher and the bookkeeping as one value the methods transform.
\* `trig` records whether the current segment called execute() anew.
D == [queue |-> queue, state |-> state, shuttingDown |-> shuttingDown,
      jobDone |-> jobDone, inflight |-> inflight, micro |-> micro,
      nextId |-> nextId, task |-> task, resolved |-> resolved,
      shutFrom |-> shutFrom, initFailed |-> initFailed, ev |-> {}, trig |-> FALSE]

\* D at the start of the call `c`.
Called(c) == [D EXCEPT !.ev = {c}]

Cmd(c, id) == [cmd |-> c, id |-> id]

\* A promise reaction job: "then" (callback of triggerExecution), "cont"
\* (execute() resuming after the awaited task `id` settled with result `ok`),
\* "tu" (testUninitialize resuming after `await this.shutdown()`).
Job(type) == [type |-> type, id |-> 0, cmd |-> "none", ok |-> TRUE, cur |-> FALSE, aw |-> FALSE]

IdsOf(q, cmds) == {q[i].id : i \in {j \in DOMAIN q : q[j].cmd \in cmds}}

SetSt(t, ids, s) == [i \in Ids |-> IF i \in ids THEN [t[i] EXCEPT !.st = s] ELSE t[i]]

\* Dispatcher.getNextCommand: queue.shift()
getNextCommand(q) == Tail(q)

\* Dispatcher.unblockTestResolvers
unblockTestResolvers(r) == [r EXCEPT !.resolved = @ \cup IdsOf(r.queue, {"TestTask"})]

\* The filter of the Clear command without PersistentTask in its list.
ClearFilterNoPersistent(q) == SelectSeq(q, LAMBDA c : c.cmd \in {"Shutdown"})

\* The filter of the Clear command.
ClearFilter(q) == SelectSeq(q, LAMBDA c : c.cmd \in {"PersistentTask", "Shutdown"})

\* case Commands.Clear
ClearCommand(r) ==
  LET u == unblockTestResolvers(r)
      kept == ClearFilter(r.queue)
  IN [u EXCEPT !.queue = kept,
               !.task = SetSt(@, IdsOf(r.queue, TaskCommands) \ IdsOf(kept, TaskCommands), "removed"),
               !.ev = @ \cup {"clear"}]

\* case Commands.Shutdown
ShutdownCommand(r) ==
  LET u == unblockTestResolvers(r)
  IN [u EXCEPT !.queue = <<>>,
               !.task = SetSt(@, IdsOf(r.queue, TaskCommands), "removed"),
               !.state = "Shutdown",
               !.shuttingDown = FALSE,
               !.ev = @ \cup {"shutdown"}]

\* case Commands.Stop
StopCommand(r) == [r EXCEPT !.state = "Stopped", !.ev = @ \cup {"stop"}]

\* execute() returns: its promise settles, which queues the .then() callback
\* registered by triggerExecution and then the continuation of a
\* testUninitialize awaiting it (`aw`); `cur`: the promise is currentJob.
Return(r, cur, aw) ==
  [r EXCEPT !.micro = @ \o <<Job("then")>> \o (IF aw THEN <<Job("tu")>> ELSE <<>>),
            !.jobDone = @ \/ cur]

\* executeTask(task): task() is called synchronously and awaited.
StartTask(r, c, cur, aw) ==
  [r EXCEPT !.inflight = @ \cup {[id |-> c.id, cmd |-> c.cmd, cur |-> cur, aw |-> aw]},
            !.task = SetSt(@, {c.id}, "running")]

\* The while loop of execute(), from a getNextCommand() to the next await
\* or return.
RECURSIVE Loop(_, _, _)
Loop(r, cur, aw) ==
  IF r.queue = <<>> THEN Return(r, cur, aw)
  ELSE LET c == Head(r.queue)
           r1 == [r EXCEPT !.queue = getNextCommand(@)]
       IN CASE c.cmd = "Stop" -> Return(StopCommand(r1), cur, aw)
            [] c.cmd = "Shutdown" -> Return(ShutdownCommand(r1), cur, aw)
            [] c.cmd = "Clear" -> Loop(ClearCommand(r1), cur, aw)
            [] OTHER -> StartTask(r1, c, cur, aw)

NotCurrent(e) == [e EXCEPT !.cur = FALSE]

\* Dispatcher.triggerExecution
triggerExecution(r) ==
  IF r.state = "Idle" /\ Len(r.queue) > 0
  THEN LET m == r.micro
       IN Loop([r EXCEPT !.state = "Processing",
                         !.jobDone = FALSE,
                         !.trig = TRUE,
                         !.inflight = {NotCurrent(e) : e \in r.inflight},
                         !.micro = [i \in DOMAIN m |-> NotCurrent(m[i])]],
               TRUE, FALSE)
  ELSE r

\* The .then() callback of triggerExecution.
ThenCallback(r) == IF r.state = "Processing" THEN [r EXCEPT !.state = "Idle"] ELSE r

Enqueued(r, c, prio) ==
  [r EXCEPT !.queue = IF prio THEN <<c>> \o @ ELSE Append(@, c),
            !.task = IF c.cmd \in TaskCommands
                     THEN [@ EXCEPT ![c.id] = [kind |-> c.cmd, st |-> "queued"]] ELSE @]

Rejected(r, c) ==
  [r EXCEPT !.task = IF c.cmd \in TaskCommands
                     THEN [@ EXCEPT ![c.id] = [kind |-> c.cmd, st |-> "dropped"]] ELSE @]

\* launchInternal without its check of the Shutdown state.
launchInternalNoShutdownCheck(r, c, priorityTask) ==
  IF ~priorityTask /\ r.state = "Uninitialized" /\ Len(r.queue) >= maxPreInitQueueSize
  THEN Rejected(r, c)
  ELSE triggerExecution(Enqueued(r, c, priorityTask))

\* Dispatcher.launchInternal
launchInternal(r, c, priorityTask) ==
  IF r.state = "Shutdown" THEN Rejected(r, c)
  ELSE IF ~priorityTask /\ r.state = "Uninitialized" /\ Len(r.queue) >= maxPreInitQueueSize
  THEN Rejected(r, c)
  ELSE triggerExecution(Enqueued(r, c, priorityTask))

\* Dispatcher.resume
resume(r) ==
  IF r.state = "Stopped"
  THEN triggerExecution([r EXCEPT !.state = "Idle", !.ev = @ \cup {"resume"}])
  ELSE r

\* Dispatcher.clear
clear(r, priorityTask) == resume(launchInternal(r, Cmd("Clear", 0), priorityTask))

\* Dispatcher.stop
stop(r, priorityTask) ==
  IF r.shuttingDown THEN clear(r, priorityTask)
  ELSE launchInternal(r, Cmd("Stop", 0), priorityTask)

\* Dispatcher.shutdown (the promise it returns is currentJob)
shutdown(r) ==
  LET r1 == [r EXCEPT !.shuttingDown = TRUE,
                      !.shutFrom = IF @ = 0 /\ r.state # "Shutdown" THEN r.nextId ELSE @]
  IN resume(launchInternal(r1, Cmd("Shutdown", 0), FALSE))

\* Dispatcher.flushInit
flushInit(r, c, hasTask) ==
  IF r.state # "Uninitialized" THEN r
  ELSE LET r1 == IF hasTask THEN launchInternal(r, c, TRUE) ELSE r
       IN triggerExecution([r1 EXCEPT !.state = "Idle", !.initFailed = FALSE])

\* Dispatcher.testLaunch
testLaunch(r, c) == launchInternal(resume(r), c, FALSE)

Awaited(e) == [e EXCEPT !.aw = e.aw \/ e.cur]

\* Dispatcher.testUninitialize up to its await
testUninitialize(r) ==
  IF r.state = "Uninitialized" THEN r
  ELSE LET r1 == shutdown(clear(r, TRUE))
           m == r1.micro
       IN IF r1.jobDone THEN [r1 EXCEPT !.micro = Append(@, Job("tu"))]
          ELSE [r1 EXCEPT !.inflight = {Awaited(e) : e \in r1.inflight},
                          !.micro = [i \in DOMAIN m |-> Awaited(m[i])]]

\* Dispatcher.testUninitialize after its await
Uninitialize(r) == [r EXCEPT !.state = "Uninitialized", !.shutFrom = 0, !.ev = @ \cup {"uninit"}]

\* execute() resuming after `await this.executeTask(task)` returned j.ok for
\* the command j.cmd, up to the next await or return.
Failed(r, j) ==
  IF j.ok THEN r
  ELSE IF j.cmd = "InitTask" THEN [r EXCEPT !.initFailed = TRUE, !.ev = @ \cup {"initfail"}]
  ELSE [r EXCEPT !.ev = @ \cup {"taskfail"}]

\* Cont with the escalation of the InitTask applied to every failing task.
ContEscalateAny(r, j) ==
  LET r1 == IF j.cmd = "TestTask" THEN [r EXCEPT !.resolved = @ \cup {j.id}] ELSE r
      r2 == IF ~j.ok THEN shutdown(clear(Failed(r1, j), TRUE)) ELSE r1
  IN Loop(r2, j.cur /\ ~r2.trig, j.aw)

Cont(r, j) ==
  LET r1 == IF j.cmd = "TestTask" THEN [r EXCEPT !.resolved = @ \cup {j.id}] ELSE r
      r2 == IF j.cmd = "InitTask" /\ ~j.ok
            THEN shutdown(clear(Failed(r1, j), TRUE))
            ELSE Failed(r1, j)
  IN Loop(r2, j.cur /\ ~r2.trig, j.aw)

PutD(r) ==
  /\ queue' = r.queue
  /\ state' = r.state
  /\ shuttingDown' = r.shuttingDown
  /\ jobDone' = r.jobDone
  /\ inflight' = r.inflight
  /\ micro' = r.micro
  /\ task' = r.task
  /\ resolved' = r.resolved
  /\ shutFrom' = r.shutFrom
  /\ initFailed' = r.initFailed
  /\ ev' = r.ev

Put(r) == PutD(r) /\ UNCHANGED <<svars, dvars, gvars, pvars, hvars>>

(***************************************************************************)
(* Actions of the async dispatcher.                                        *)
(***************************************************************************)

\* The callers the model follows make no further call while more than
\* MaxMicro jobs are pending, and issue no further command (stop, clear,
\* shutdown) while the queue holds MaxQueue commands.
CallerMayCall == Len(micro) <= MaxMicro

CallerMayCommand == CallerMayCall /\ Len(queue) < MaxQueue

\* launch(task)
Launch ==
  /\ nextId <= MaxTasks
  /\ CallerMayCall
  /\ Put(launchInternal(D, Cmd("Task", nextId), FALSE))
  /\ nextId' = nextId + 1

\* launchPersistent(task)
LaunchPersistent ==
  /\ nextId <= MaxTasks
  /\ CallerMayCall
  /\ Put(launchInternal(D, Cmd("PersistentTask", nextId), FALSE))
  /\ nextId' = nextId + 1

\* testLaunch(task)
TestLaunch ==
  /\ nextId <= MaxTasks
  /\ CallerMayCall
  /\ Put(testLaunch(D, Cmd("TestTask", nextId)))
  /\ nextId' = nextId + 1

\* flushInit(task?)
FlushInit ==
  \E hasTask \in BOOLEAN :
    /\ hasTask => nextId <= MaxTasks
    /\ CallerMayCall
    /\ Put(flushInit(D, Cmd("InitTask", nextId), hasTask))
    /\ nextId' = IF hasTask /\ state = "Uninitialized" THEN nextId + 1 ELSE nextId
  
\* clear(priorityTask)
ClearCall ==
  \E p \in {TRUE} :
    /\ CallerMayCommand
    /\ Put(clear(Called("callClear"), p))
    /\ UNCHANGED nextId

\* stop(priorityTask)
StopCall ==
  \E p \in {TRUE} :
    /\ CallerMayCommand
    /\ Put(stop(D, p))
    /\ UNCHANGED nextId

\* resume()
ResumeCall ==
  /\ CallerMayCall
  /\ Put(resume(D))
  /\ UNCHANGED nextId

\* shutdown()
ShutdownCall ==
  /\ CallerMayCommand
  /\ Put(shutdown(Called("callShutdown")))
  /\ UNCHANGED nextId

NoUninitializePending ==
  /\ \A e \in inflight : ~e.aw
  /\ \A i \in DOMAIN micro : micro[i].type # "tu" /\ ~micro[i].aw

\* testUninitialize(), up to its await
TestUninitializeCall ==
  /\ NoUninitializePending
  /\ CallerMayCommand
  /\ Put(testUninitialize(D))
  /\ UNCHANGED nextId

\* The task awaited by a suspended execute() settles: it resolves (ok) or
\* throws (~ok); executeTask returns ok and the continuation is queued.
TaskSettle ==
  \E e \in inflight, ok \in BOOLEAN :
    /\ Put([D EXCEPT !.inflight = @ \ {e},
                     !.micro = Append(@, [type |-> "cont", id |-> e.id, cmd |-> e.cmd,
                                          ok |-> ok, cur |-> e.cur, aw |-> e.aw]),
                     !.task = SetSt(@, {e.id}, "done")])
    /\ UNCHANGED nextId

\* The oldest job of the microtask queue runs.
MicroStep ==
  /\ micro # <<>>
  /\ LET j == Head(micro)
         r == [D EXCEPT !.micro = Tail(@)]
     IN /\ Put(CASE j.type = "then" -> ThenCallback(r)
                 [] j.type = "cont" -> Cont(r, j)
                 [] OTHER -> Uninitialize(r))
  /\ UNCHANGED nextId

(***************************************************************************)
(* DispatcherSync: the methods as operators on a record of its fields.     *)
(* Tasks run inline; `failing` is the set of tasks that throw.             *)
(***************************************************************************)

S == [queue |-> syncQueue, pre |-> preInitQueue, state |-> syncState,
      shuttingDown |-> syncShuttingDown, init |-> contextInitialized,
      task |-> syncTask, order |-> syncOrder, resolved |-> syncResolved,
      initFailed |-> syncInitFailed, ev |-> {}]

SyncCalled(c) == [S EXCEPT !.ev = {c}]

\* DispatcherSync.unblockTestResolvers
SyncUnblockTestResolvers(r) == [r EXCEPT !.resolved = @ \cup IdsOf(r.queue, {"TestTask"})]

\* A Clear command that resolves the test tasks and leaves the queue as it is.
SyncClearCommandKeepsTasks(r) ==
  [SyncUnblockTestResolvers(r) EXCEPT !.ev = @ \cup {"clear"}]

\* case Commands.Clear of DispatcherSync.execute
SyncClearCommand(r) ==
  LET u == SyncUnblockTestResolvers(r)
      kept == ClearFilter(r.queue)
  IN [u EXCEPT !.queue = kept,
               !.task = SetSt(@, IdsOf(r.queue, TaskCommands) \ IdsOf(kept, TaskCommands), "removed"),
               !.ev = @ \cup {"clear"}]

\* case Commands.Shutdown of DispatcherSync.execute
SyncShutdownCommand(r) ==
  LET u == SyncUnblockTestResolvers(r)
  IN [u EXCEPT !.queue = <<>>,
               !.task = SetSt(@, IdsOf(r.queue, TaskCommands), "removed"),
               !.state = "Shutdown",
               !.shuttingDown = FALSE,
               !.ev = @ \cup {"shutdown"}]

\* DispatcherSync.executeTask: the task runs to completion. The task given
\* to flushInit by initializeInner starts with Context.initialized = true.
SyncExecuteTask(r, c, failing) ==
  [r EXCEPT !.task = SetSt(@, {c.id}, "done"),
            !.order = Append(@, c.id),
            !.init = @ \/ c.cmd = "InitTask",
            !.resolved = IF c.cmd = "TestTask" THEN @ \cup {c.id} ELSE @,
            !.initFailed = @ \/ (c.cmd = "InitTask" /\ c.id \in failing),
            !.ev = IF c.id \notin failing THEN @
                   ELSE IF c.cmd = "InitTask" THEN @ \cup {"initfail"} ELSE @ \cup {"taskfail"}]

SyncEnqueued(r, c, prio) ==
  [r EXCEPT !.queue = IF prio THEN <<c>> \o @ ELSE Append(@, c),
            !.task = IF c.cmd \in TaskCommands
                     THEN [@ EXCEPT ![c.id] = [kind |-> c.cmd, st |-> "queued"]] ELSE @]

SyncPreEnqueued(r, c) ==
  [r EXCEPT !.pre = Append(@, c),
            !.task = IF c.cmd \in TaskCommands
                     THEN [@ EXCEPT ![c.id] = [kind |-> c.cmd, st |-> "queued"]] ELSE @]

RECURSIVE SyncExecute(_, _), SyncTriggerExecution(_, _), SyncLaunchInternal(_, _, _, _),
          SyncResume(_, _), SyncClear(_, _, _), SyncShutdown(_, _)

\* DispatcherSync.execute
SyncExecute(r, failing) ==
  IF r.pre = <<>> /\ r.queue = <<>> THEN r
  ELSE LET fromPre == r.pre # <<>>
           c == IF fromPre THEN Head(r.pre) ELSE Head(r.queue)
           r1 == IF fromPre THEN [r EXCEPT !.pre = Tail(@)] ELSE [r EXCEPT !.queue = getNextCommand(@)]
       IN CASE c.cmd = "Stop" -> [r1 EXCEPT !.state = "Stopped", !.ev = @ \cup {"stop"}]
            [] c.cmd = "Shutdown" -> SyncShutdownCommand(r1)
            [] c.cmd = "Clear" -> SyncExecute(SyncClearCommand(r1), failing)
            [] c.cmd = "InitTask" ->
                 LET r2 == SyncExecuteTask(r1, c, failing)
                 IN IF c.id \in failing
                    THEN SyncExecute(
                           SyncShutdown(SyncClear(r2, TRUE, failing), failing),
                           failing)
                    ELSE SyncExecute(r2, failing)
            [] OTHER -> SyncExecute(SyncExecuteTask(r1, c, failing), failing)

\* DispatcherSync.triggerExecution
SyncTriggerExecution(r, failing) ==
  IF r.state = "Idle" /\ Len(r.queue) > 0
  THEN SyncExecute([r EXCEPT !.state = "Processing"], failing)
  ELSE r

\* DispatcherSync.launchInternal
SyncLaunchInternal(r, c, priorityTask, failing) ==
  IF ~r.init THEN SyncPreEnqueued(r, c)
  ELSE IF r.state = "Shutdown" THEN Rejected(r, c)
  ELSE IF ~priorityTask /\ r.state = "Uninitialized" /\ Len(r.queue) >= maxPreInitQueueSize
  THEN Rejected(r, c)
  ELSE SyncTriggerExecution(SyncEnqueued(r, c, priorityTask), failing)

\* DispatcherSync.resume
SyncResume(r, failing) ==
  IF r.state = "Stopped"
  THEN SyncTriggerExecution([r EXCEPT !.state = "Idle", !.ev = @ \cup {"resume"}], failing)
  ELSE r

\* DispatcherSync.clear
SyncClear(r, priorityTask, failing) ==
  SyncResume(SyncLaunchInternal(r, Cmd("Clear", 0), priorityTask, failing), failing)

\* DispatcherSync.shutdown
SyncShutdown(r, failing) ==
  SyncResume(SyncLaunchInternal([r EXCEPT !.shuttingDown = TRUE], Cmd("Shutdown", 0), FALSE, failing),
             failing)

\* DispatcherSync.stop
SyncStop(r, priorityTask, failing) ==
  IF r.shuttingDown THEN SyncClear(r, priorityTask, failing)
  ELSE SyncLaunchInternal(r, Cmd("Stop", 0), priorityTask, failing)

\* DispatcherSync.flushInit
SyncFlushInit(r, c, hasTask, failing) ==
  IF r.state # "Uninitialized" THEN r
  ELSE LET r1 == IF hasTask THEN SyncLaunchInternal(r, c, TRUE, failing) ELSE r
       IN SyncTriggerExecution([r1 EXCEPT !.state = "Idle"], failing)

\* DispatcherSync.testLaunch
SyncTestLaunch(r, c, failing) == SyncLaunchInternal(SyncResume(r, failing), c, FALSE, failing)

\* DispatcherSync.testUninitialize
SyncTestUninitialize(r, failing) ==
  IF r.state = "Uninitialized" THEN r
  ELSE [SyncShutdown(SyncClear(r, TRUE, failing), failing) EXCEPT !.state = "Uninitialized",
                                                                 !.ev = @ \cup {"uninit"}]

\* Glean.initialize of the synchronous mode with a platform set:
\* initializeInner is called from the catch block only, that is when
\* window.indexedDB.open throws; it returns early when Context.initialized
\* holds or the applicationId is not valid, and else hands the init task to
\* flushInit.
SyncGleanInitialize(r, idbThrows, valid, c, failing) ==
  IF ~idbThrows THEN [r EXCEPT !.ev = @ \cup {"idbOpened"}]
  ELSE IF r.init THEN r
  ELSE IF ~valid THEN [r EXCEPT !.ev = @ \cup {"invalid"}]
  ELSE SyncFlushInit(r, c, TRUE, failing)

SyncPut(r) ==
  /\ syncQueue' = r.queue
  /\ preInitQueue' = r.pre
  /\ syncState' = r.state
  /\ syncShuttingDown' = r.shuttingDown
  /\ contextInitialized' = r.init
  /\ syncTask' = r.task
  /\ syncOrder' = r.order
  /\ syncResolved' = r.resolved
  /\ syncInitFailed' = r.initFailed
  /\ syncEv' = r.ev
  /\ UNCHANGED <<avars, dvars, gvars, pvars, hvars>>

(***************************************************************************)
(* Actions of the sync dispatcher.                                         *)
(***************************************************************************)

\* The callers issue no further command (stop, clear, shutdown) while the
\* two queues hold MaxQueue commands.
SyncCallerMayCommand == Len(syncQueue) + Len(preInitQueue) < MaxQueue

\* The tasks a call can come to execute: the queued ones and its own.
SyncPending == IdsOf(syncQueue \o preInitQueue, TaskCommands)

SyncMayFail == SUBSET (SyncPending \cup ({syncNextId} \cap Ids))

\* launch(task)
SyncLaunch ==
  \E failing \in SyncMayFail :
    /\ syncNextId <= MaxTasks
    /\ SyncPut(SyncLaunchInternal(SyncCalled("callLaunch"), Cmd("Task", syncNextId), FALSE, failing))
    /\ syncNextId' = syncNextId + 1

\* launchPersistent(task)
SyncLaunchPersistent ==
  \E failing \in SyncMayFail :
    /\ syncNextId <= MaxTasks
    /\ SyncPut(SyncLaunchInternal(SyncCalled("callLaunch"), Cmd("PersistentTask", syncNextId), FALSE, failing))
    /\ syncNextId' = syncNextId + 1

\* testLaunch(task)
SyncTestLaunchCall ==
  \E failing \in SyncMayFail :
    /\ syncNextId <= MaxTasks
    /\ SyncPut(SyncTestLaunch(SyncCalled("callLaunch"), Cmd("TestTask", syncNextId), failing))
    /\ syncNextId' = syncNextId + 1

\* flushInit(task?)
SyncFlushInitCall ==
  \E hasTask \in BOOLEAN, failing \in SyncMayFail :
    /\ hasTask => syncNextId <= MaxTasks
    /\ SyncPut(SyncFlushInit(SyncCalled("callFlushInit"), Cmd("InitTask", syncNextId), hasTask, failing))
    /\ syncNextId' = IF hasTask /\ syncState = "Uninitialized" THEN syncNextId + 1 ELSE syncNextId

\* clear()
SyncClearCall ==
  \E failing \in SyncMayFail :
    /\ SyncCallerMayCommand
    /\ SyncPut(SyncClear(SyncCalled("callClear"), TRUE, failing))
    /\ UNCHANGED syncNextId

\* stop()
SyncStopCall ==
  \E failing \in SyncMayFail :
    /\ SyncCallerMayCommand
    /\ SyncPut(SyncStop(SyncCalled("callStop"), TRUE, failing))
    /\ UNCHANGED syncNextId

\* resume()
SyncResumeCall ==
  \E failing \in SyncMayFail :
    /\ SyncPut(SyncResume(SyncCalled("callResume"), failing))
    /\ UNCHANGED syncNextId

\* shutdown()
SyncShutdownCall ==
  \E failing \in SyncMayFail :
    /\ SyncCallerMayCommand
    /\ SyncPut(SyncShutdown(SyncCalled("callShutdown"), failing))
    /\ UNCHANGED syncNextId

\* testUninitialize()
SyncTestUninitializeCall ==
  \E failing \in SyncMayFail :
    /\ SyncCallerMayCommand
    /\ SyncPut(SyncTestUninitialize(SyncCalled("callUninit"), failing))
    /\ UNCHANGED syncNextId

\* Glean.initialize(applicationId, uploadEnabled, config)
SyncInitializeCall ==
  \E idbThrows \in BOOLEAN, valid \in BOOLEAN, failing \in SyncMayFail :
    LET enqueues == idbThrows /\ valid /\ ~contextInitialized /\ syncState = "Uninitialized"
    IN /\ enqueues => syncNextId <= MaxTasks
       /\ SyncPut(SyncGleanInitialize(SyncCalled("callInitialize"), idbThrows, valid,
                                      Cmd("InitTask", syncNextId), failing))
       /\ syncNextId' = IF enqueues THEN syncNextId + 1 ELSE syncNextId

\* Context.initialized = true, by code other than a dispatched task.
SetContextInitialized ==
  /\ ~contextInitialized
  /\ SyncPut([S EXCEPT !.init = TRUE])
  /\ UNCHANGED syncNextId

(***************************************************************************)
(* MetricsDatabase and the recording of a boolean metric.                  *)
(***************************************************************************)

\* The values a storage entry is seen to hold: nothing, a boolean, or
\* something that is no boolean (written behind the back of the database).
StoredValues == {"undefined", "true", "false", "bogus"}

Lifetimes == {"user", "ping", "application"}

PingNames == {"p1", "p2"}

\* CommonMetricData, as far as the database looks at it.
Metrics == [lifetime : Lifetimes, sendInPings : {{"p1"}, {"p1", "p2"}}, disabled : BOOLEAN]

\* The transformation functions handed to transform.
TransformFns == {"setTrue", "setFalse", "negate"}

\* The transformation functions of the callers other than record.
CallerFns == {"negate"}

ApplyFn(fn, v) ==
  CASE fn = "setTrue" -> "true"
    [] fn = "setFalse" -> "false"
    [] OTHER -> IF v = "true" THEN "false" ELSE "true"

\* BooleanMetric.validate
validate(v) == v \in {"true", "false"}

\* The metric types whose payload is compared with what the database
\* returns: one whose payload is the inner value, one whose payload wraps it.
MetricTypes == {"boolean", "timing_distribution"}

\* A JSON value read from the storage, as it is: not wrapped in an object.
Plain(v) == [values |-> FALSE, inner |-> v]

\* Metric.payload: the inner value for a boolean, the object
\* { values: inner } for a timing distribution.
payload(type, inner) ==
  IF type = "timing_distribution" THEN [values |-> TRUE, inner |-> inner]
  ELSE [values |-> FALSE, inner |-> inner]

\* MetricType.shouldRecord
shouldRecord(m, uploadEnabled) == uploadEnabled /\ ~m.disabled

DB == [store |-> dbStore, errors |-> dbErrors]

NoCall == [op |-> "none", lifetime |-> "user", ping |-> "p1", disabled |-> FALSE,
           ret |-> "undefined", log |-> FALSE]

\* MetricsDatabase.chooseStore
chooseStore(db, lifetime) == db.store[lifetime]

\* Store.update, on the entry of one ping
StoreUpdate(db, lifetime, ping, fn) ==
  [db EXCEPT !.store[lifetime][ping] = ApplyFn(fn, @)]

\* Store.delete, on the entry of one ping
StoreDelete(db, lifetime, ping) ==
  [db EXCEPT !.store[lifetime][ping] = "undefined"]

RECURSIVE UpdateEach(_, _, _, _)
UpdateEach(db, m, pings, fn) ==
  IF pings = {} THEN db
  ELSE LET p == CHOOSE x \in pings : TRUE
       IN UpdateEach(StoreUpdate(db, m.lifetime, p, fn), m, pings \ {p}, fn)

\* getMetric looks only at the stored value: a variant that returns
\* undefined for a value that fails the validator but leaves it in storage.
getMetricKeepsInvalid(db, ping, m) ==
  LET value == chooseStore(db, m.lifetime)[ping]
  IN IF value # "undefined" /\ ~validate(value)
     THEN [db |-> db, ret |-> "undefined", log |-> TRUE]
     ELSE [db |-> db, ret |-> value, log |-> FALSE]

\* transform that updates the entry of one ping of sendInPings only.
transformFirstPingOnly(db, m, fn) ==
  IF m.disabled THEN db
  ELSE UpdateEach(db, m, {CHOOSE p \in m.sendInPings : TRUE}, fn)

\* transform without its test of metric.disabled.
transformIgnoresDisabled(db, m, fn) == UpdateEach(db, m, m.sendInPings, fn)

\* MetricsDatabase.transform
transform(db, m, fn) ==
  IF m.disabled THEN db ELSE UpdateEach(db, m, m.sendInPings, fn)

\* MetricsDatabase.record
record(db, m, v) == transform(db, m, IF v = "true" THEN "setTrue" ELSE "setFalse")

\* MetricsDatabase.getMetric
getMetric(db, ping, m) ==
  LET value == chooseStore(db, m.lifetime)[ping]
  IN IF value # "undefined" /\ ~validate(value)
     THEN [db |-> StoreDelete(db, m.lifetime, ping), ret |-> "undefined", log |-> TRUE]
     ELSE [db |-> db, ret |-> value, log |-> FALSE]

\* MetricsDatabase.clear
clearLifetime(db, lifetime, pings) ==
  [db EXCEPT !.store[lifetime] = [p \in PingNames |-> IF p \in pings THEN "undefined" ELSE @[p]],
             !.errors = [p \in PingNames |-> IF lifetime = "ping" /\ p \in pings THEN 0 ELSE @[p]]]

\* MetricsDatabase.clearAll
clearAll(db) ==
  [db EXCEPT !.store = [l \in Lifetimes |-> [p \in PingNames |-> "undefined"]],
             !.errors = [p \in PingNames |-> 0]]

\* ErrorManager.record that stores one error instead of adding one to the
\* errors already counted.
errorRecordForgets(db, m) ==
  [db EXCEPT !.errors = [p \in PingNames |-> IF p \in m.sendInPings THEN 1 ELSE @[p]]]

\* ErrorManager.record: the error counter of the metric is incremented in
\* every ping of the metric.
errorRecord(db, m) ==
  [db EXCEPT !.errors = [p \in PingNames |-> IF p \in m.sendInPings THEN @[p] + 1 ELSE @[p]]]

\* ErrorManager.testGetNumRecordedErrors
testGetNumRecordedErrors(db, m, ping) == db.errors[ping]

\* InternalBooleanMetricType.setSync
setSync(db, m, value, uploadEnabled) ==
  IF ~shouldRecord(m, uploadEnabled) THEN db
  ELSE IF ~validate(value) THEN errorRecord(db, m)
  ELSE record(db, m, value)

DbPut(db, call) ==
  /\ dbStore' = db.store
  /\ dbErrors' = db.errors
  /\ dbCall' = call
  /\ UNCHANGED <<avars, svars, gvars, pvars, hvars>>

\* record(metric, value)
DbRecord ==
  \E m \in Metrics, v \in {"true", "false"} :
    DbPut(record(DB, m, v), [NoCall EXCEPT !.op = "record", !.disabled = m.disabled])

\* transform(metric, transformFn)
DbTransform ==
  \E m \in Metrics, fn \in CallerFns :
    DbPut(transform(DB, m, fn), [NoCall EXCEPT !.op = "transform", !.disabled = m.disabled])

\* getMetric(ping, metric)
DbGetMetric ==
  \E m \in {x \in Metrics : ~x.disabled /\ x.sendInPings = PingNames}, p \in PingNames :
    LET g == getMetric(DB, p, m)
    IN DbPut(g.db, [op |-> "getMetric", lifetime |-> m.lifetime, ping |-> p,
                    disabled |-> FALSE, ret |-> g.ret, log |-> g.log])

\* clear(lifetime, ping?)
DbClear ==
  \E l \in Lifetimes, ps \in {{p} : p \in PingNames} \cup {PingNames} :
    DbPut(clearLifetime(DB, l, ps), [NoCall EXCEPT !.op = "clear"])

\* clearAll()
DbClearAll == DbPut(clearAll(DB), [NoCall EXCEPT !.op = "clearAll"])

\* metric.set(value) on the path that records at once; the errors counted
\* for one ping are bounded by MaxErrors.
DbBooleanSet ==
  \E m \in Metrics, v \in {"true", "bogus"}, up \in BOOLEAN :
    /\ v = "bogus" => \A p \in m.sendInPings : dbErrors[p] < MaxErrors
    /\ DbPut(setSync(DB, m, v, up), [NoCall EXCEPT !.op = "set", !.disabled = m.disabled])

Corrupted == {<<l, p>> \in Lifetimes \X PingNames : dbStore[l][p] = "bogus"}

\* Something other than the database writes a value that is no boolean
\* into the storage.
DbCorrupt ==
  \E l \in Lifetimes, p \in PingNames :
    /\ Cardinality(Corrupted) < MaxCorrupt
    /\ DbPut([DB EXCEPT !.store[l][p] = "bogus"], [NoCall EXCEPT !.op = "corrupt"])

(***************************************************************************)
(* Glean on an async platform: initialize, setUploadEnabled and the        *)
(* upload-enabled transitions, over the async dispatcher.  The body of a   *)
(* dispatched task runs from one await to the next in one step; other      *)
(* calls of the application run between two such steps.                    *)
(***************************************************************************)

\* The values a first_run_date is seen to hold.
Dates == {"d1", "d2"}

\* The config argument of initialize.
Configs == {"c1", "c2"}

\* What the storage holds when the databases are first constructed:
\* nothing (first run), data but no client_id (getMetric deletes a
\* client_id that fails validation), the data of a session that had upload
\* enabled, or the data of a session that had upload disabled.
PersistedStores ==
  { [clientId |-> "none", firstRunDate |-> "none", userData |-> FALSE, pending |-> FALSE],
    [clientId |-> "none", firstRunDate |-> "d2", userData |-> TRUE, pending |-> TRUE],
    [clientId |-> "uuid", firstRunDate |-> "d1", userData |-> TRUE, pending |-> TRUE],
    [clientId |-> "known", firstRunDate |-> "d1", userData |-> FALSE, pending |-> FALSE] }

\* Glean before initialize.  History kept for the properties: fresh (the
\* init task ran with uploadEnabled false and found no client_id),
\* enabledSince (a setUploadEnabled(true) has taken effect), delSent (the
\* running task submitted a deletion-request), prevDate (the first_run_date
\* stored when the running task started), eventsInit (Context.uploadEnabled
\* as eventsDatabase.initialize found it), scan (what scanPendingPings
\* found and enqueued for upload).
NoGlean ==
  [initialized |-> FALSE, uploadEnabled |-> "undefined", config |-> "none",
   clientId |-> "none", firstRunDate |-> "none", userData |-> FALSE, pending |-> FALSE,
   body |-> [i \in Ids |-> [kind |-> "none", flag |-> FALSE]],
   run |-> 0, pc |-> "end", saved |-> "none",
   call |-> "none", submitted |-> "no",
   fresh |-> FALSE, enabledSince |-> FALSE, delSent |-> FALSE, prevDate |-> "none",
   eventsInit |-> "no", scan |-> "no"]

\* The dispatcher and Glean at the start of the API call `c`.
GD(c) == [d |-> D, g |-> [glean EXCEPT !.call = c, !.submitted = "no"]]

\* shouldRecord(Context.uploadEnabled) of an enabled metric.
Recording(g) == shouldRecord([disabled |-> FALSE], g.uploadEnabled = "true")

\* onUploadEnabled whose initializeClientId generates a client_id only when
\* none is stored, and keeps KNOWN_CLIENT_ID.
onUploadEnabledKeepsSentinel(g, d) ==
  CASE g.pc = "start" -> [g EXCEPT !.uploadEnabled = "true", !.pc = "clientId"]
    [] g.pc = "clientId" ->
         [g EXCEPT !.clientId = IF @ = "none" /\ Recording(g) THEN "uuid" ELSE @,
                   !.pc = "firstRunDate"]
    [] OTHER ->
         [g EXCEPT !.firstRunDate = IF @ = "none" /\ Recording(g) THEN d ELSE @,
                   !.pc = "end"]

\* onUploadEnabled with CoreMetrics.initialize: uploadEnabled = true, then
\* initializeClientId, then initializeFirstRunDate (`d`: the current date).
onUploadEnabled(g, d) ==
  CASE g.pc = "start" -> [g EXCEPT !.uploadEnabled = "true", !.pc = "clientId"]
    [] g.pc = "clientId" ->
         [g EXCEPT !.clientId = IF @ \in {"none", "known"} /\ Recording(g) THEN "uuid" ELSE @,
                   !.pc = "firstRunDate"]
    [] OTHER ->
         [g EXCEPT !.firstRunDate = IF @ = "none" /\ Recording(g) THEN d ELSE @,
                   !.pc = "end"]

\* onUploadDisabled up to clearMetrics: uploadEnabled = false, then the
\* deletion-request is collected with the client_id stored at that moment.
onUploadDisabled(g) ==
  [g EXCEPT !.uploadEnabled = "false", !.submitted = g.clientId, !.delSent = TRUE,
            !.pc = "clear1"]

\* clearMetrics without its last assignment Context.uploadEnabled = false.
clearMetricsLeavesEnabled(g, d) ==
  CASE g.pc = "clear1" ->
         [g EXCEPT !.pending = FALSE,
                   !.saved = IF g.firstRunDate # "none" THEN g.firstRunDate ELSE d,
                   !.clientId = "none", !.firstRunDate = "none", !.userData = FALSE,
                   !.pc = "clear2"]
    [] g.pc = "clear2" ->
         [g EXCEPT !.uploadEnabled = "true", !.clientId = "known", !.pc = "clear3"]
    [] g.pc = "clear3" ->
         [g EXCEPT !.firstRunDate = IF Recording(g) THEN g.saved ELSE @, !.pc = "clear4"]
    [] OTHER -> [g EXCEPT !.pc = "end"]

\* clearMetrics without the write of KNOWN_CLIENT_ID.
clearMetricsNoSentinel(g, d) ==
  CASE g.pc = "clear1" ->
         [g EXCEPT !.pending = FALSE,
                   !.saved = IF g.firstRunDate # "none" THEN g.firstRunDate ELSE d,
                   !.clientId = "none", !.firstRunDate = "none", !.userData = FALSE,
                   !.pc = "clear2"]
    [] g.pc = "clear2" -> [g EXCEPT !.uploadEnabled = "true", !.pc = "clear3"]
    [] g.pc = "clear3" ->
         [g EXCEPT !.firstRunDate = IF Recording(g) THEN g.saved ELSE @, !.pc = "clear4"]
    [] OTHER -> [g EXCEPT !.uploadEnabled = "false", !.pc = "end"]

\* clearMetrics without the restoration of first_run_date.
clearMetricsNoRestore(g, d) ==
  CASE g.pc = "clear1" ->
         [g EXCEPT !.pending = FALSE,
                   !.saved = IF g.firstRunDate # "none" THEN g.firstRunDate ELSE d,
                   !.clientId = "none", !.firstRunDate = "none", !.userData = FALSE,
                   !.pc = "clear2"]
    [] g.pc = "clear2" ->
         [g EXCEPT !.uploadEnabled = "true", !.clientId = "known", !.pc = "clear3"]
    [] g.pc = "clear3" -> [g EXCEPT !.pc = "clear4"]
    [] OTHER -> [g EXCEPT !.uploadEnabled = "false", !.pc = "end"]

\* clearMetrics: (clear1) clearPendingPingsQueue, the stored first_run_date
\* or the current date `d` is kept, the three databases are cleared;
\* (clear2) uploadEnabled = true and client_id is set to KNOWN_CLIENT_ID;
\* (clear3) first_run_date is set to the kept date; (clear4) uploadEnabled
\* = false.
clearMetrics(g, d) ==
  CASE g.pc = "clear1" ->
         [g EXCEPT !.pending = FALSE,
                   !.saved = IF g.firstRunDate # "none" THEN g.firstRunDate ELSE d,
                   !.clientId = "none", !.firstRunDate = "none", !.userData = FALSE,
                   !.pc = "clear2"]
    [] g.pc = "clear2" ->
         [g EXCEPT !.uploadEnabled = "true", !.clientId = "known", !.pc = "clear3"]
    [] g.pc = "clear3" ->
         [g EXCEPT !.firstRunDate = IF Recording(g) THEN g.saved ELSE @, !.pc = "clear4"]
    [] OTHER -> [g EXCEPT !.uploadEnabled = "false", !.pc = "end"]

\* The init task with onUploadDisabled called whatever client_id is found.
initTaskAlwaysDeletes(g, flag) ==
  LET g1 == [g EXCEPT !.initialized = TRUE,
                      !.uploadEnabled = IF flag THEN "true" ELSE "false",
                      !.eventsInit = IF flag THEN "true" ELSE "false",
                      !.fresh = ~flag /\ g.clientId = "none"]
  IN IF flag THEN onUploadEnabled(g1, "d1") ELSE onUploadDisabled(g1)

\* PingsDatabase.scanPendingPings: the pings found in the storage are
\* enqueued for upload.
scanPendingPings(g) == [g EXCEPT !.scan = IF g.pending THEN "pings" ELSE "empty"]

\* The init task with eventsDatabase.initialize and scanPendingPings called
\* first, before Context.uploadEnabled is set and reconciled.
initTaskScansFirst(g, flag) ==
  LET g0 == scanPendingPings([g EXCEPT !.eventsInit = g.uploadEnabled])
      g1 == [g0 EXCEPT !.initialized = TRUE,
                       !.uploadEnabled = IF flag THEN "true" ELSE "false",
                       !.fresh = ~flag /\ g.clientId = "none"]
  IN IF flag THEN onUploadEnabled(g1, "d1")
     ELSE IF g1.clientId = "none" THEN [g1 EXCEPT !.pc = "clear1"]
     ELSE IF g1.clientId # "known" THEN onUploadDisabled(g1)
     ELSE [g1 EXCEPT !.pc = "end"]

\* The task handed to flushInit by initialize, up to the first await of
\* onUploadEnabled, onUploadDisabled or clearMetrics: Context.initialized
\* and Context.uploadEnabled are set, then eventsDatabase.initialize runs.
initTask(g, flag) ==
  LET g1 == [g EXCEPT !.initialized = TRUE,
                      !.uploadEnabled = IF flag THEN "true" ELSE "false",
                      !.eventsInit = IF flag THEN "true" ELSE "false",
                      !.fresh = ~flag /\ g.clientId = "none"]
  IN IF flag THEN onUploadEnabled(g1, "d1")
     ELSE IF g1.clientId = "none" THEN [g1 EXCEPT !.pc = "clear1"]
     ELSE IF g1.clientId # "known" THEN onUploadDisabled(g1)
     ELSE [g1 EXCEPT !.pc = "end"]

\* The task launched by setUploadEnabled(flag), up to its first await.
uploadTask(g, flag) ==
  IF (g.uploadEnabled = "true") # flag
  THEN IF flag THEN onUploadEnabled([g EXCEPT !.enabledSince = TRUE], "d1")
       ELSE onUploadDisabled(g)
  ELSE [g EXCEPT !.pc = "end"]

\* The next piece of the running task's body, up to its next await; the
\* init task goes on to scanPendingPings when onUploadEnabled,
\* onUploadDisabled or clearMetrics has returned.
TaskBody(g, d) ==
  LET b == g.body[g.run]
      g2 == CASE g.pc = "start" /\ b.kind = "init" -> initTask(g, b.flag)
              [] g.pc = "start" /\ b.kind = "upload" -> uploadTask(g, b.flag)
              [] g.pc = "start" /\ b.kind = "record" ->
                   [g EXCEPT !.userData = @ \/ Recording(g), !.pc = "end"]
              [] g.pc = "start" /\ b.kind = "submit" ->
                   [g EXCEPT !.submitted = g.clientId, !.pending = TRUE, !.pc = "end"]
              [] g.pc \in {"clientId", "firstRunDate"} -> onUploadEnabled(g, d)
              [] OTHER -> clearMetrics(g, d)
  IN IF b.kind = "init" /\ g2.pc = "end" THEN scanPendingPings(g2) ELSE g2

\* executeTask calls task(): when the dispatcher `r` has started a task the
\* dispatcher `r0` had not, its body runs up to its first await.
Started(g, r0, r) ==
  LET new == {e.id : e \in r.inflight} \ {e.id : e \in r0.inflight}
  IN IF new = {} THEN g
     ELSE TaskBody([g EXCEPT !.run = CHOOSE i \in new : TRUE, !.pc = "start",
                             !.saved = "none", !.delSent = FALSE,
                             !.prevDate = g.firstRunDate], "d1")

\* The dispatcher call that turned x.d into r, with the task body it started.
Dispatched(x, r) == [d |-> r, g |-> Started(x.g, x.d, r)]

\* The function `kind` is launched as task `id`.
WithBody(x, id, kind, flag) ==
  [x EXCEPT !.g.body[id] = [kind |-> kind, flag |-> flag]]

\* initialize without its test of Context.initialized.
initializeUnchecked(x, flag, cfg, st, id) ==
  LET first == x.g.config = "none"
      x1 == [x EXCEPT !.g.config = cfg,
                      !.g.clientId = IF first THEN st.clientId ELSE @,
                      !.g.firstRunDate = IF first THEN st.firstRunDate ELSE @,
                      !.g.userData = IF first THEN st.userData ELSE @,
                      !.g.pending = IF first THEN st.pending ELSE @]
  IN Dispatched(WithBody(x1, id, "init", flag),
                flushInit(x1.d, Cmd("InitTask", id), TRUE))

\* Glean.initialize(applicationId, uploadEnabled, config), its arguments
\* valid and the platform set; `st` is what the storage holds.
initialize(x, flag, cfg, st, id) ==
  IF x.g.initialized THEN x
  ELSE LET first == x.g.config = "none"
           x1 == [x EXCEPT !.g.config = cfg,
                           !.g.clientId = IF first THEN st.clientId ELSE @,
                           !.g.firstRunDate = IF first THEN st.firstRunDate ELSE @,
                           !.g.userData = IF first THEN st.userData ELSE @,
                           !.g.pending = IF first THEN st.pending ELSE @]
       IN Dispatched(WithBody(x1, id, "init", flag),
                     flushInit(x1.d, Cmd("InitTask", id), TRUE))

\* setUploadEnabled without its test of Context.initialized.
setUploadEnabledUnchecked(x, flag, id) ==
  Dispatched(WithBody(x, id, "upload", flag), launchInternal(x.d, Cmd("Task", id), FALSE))

\* Glean.setUploadEnabled(flag), flag a boolean
setUploadEnabled(x, flag, id) ==
  IF ~x.g.initialized THEN x
  ELSE Dispatched(WithBody(x, id, "upload", flag),
                  launchInternal(x.d, Cmd("Task", id), FALSE))

GPut(x) ==
  /\ PutD(x.d)
  /\ glean' = x.g
  /\ UNCHANGED <<svars, dvars, pvars, hvars>>

\* Glean.initialize(applicationId, uploadEnabled, config)
GInitialize ==
  \E flag \in BOOLEAN, cfg \in Configs, st \in PersistedStores :
    /\ glean.initialized \/ nextId <= MaxTasks
    /\ CallerMayCall
    /\ GPut(initialize(GD("initialize"), flag, cfg, st, nextId))
    /\ nextId' = IF glean.initialized THEN nextId ELSE nextId + 1

\* Glean.setUploadEnabled(flag)
GSetUploadEnabled ==
  \E flag \in BOOLEAN :
    /\ ~glean.initialized \/ nextId <= MaxTasks
    /\ CallerMayCall
    /\ GPut(setUploadEnabled(GD("setUploadEnabled"), flag, nextId))
    /\ nextId' = IF glean.initialized THEN nextId + 1 ELSE nextId

\* quantity.set(value) on an async platform: setAsync launches a task that
\* records if shouldRecord(Context.uploadEnabled).
GQuantitySet ==
  /\ nextId <= MaxTasks
  /\ CallerMayCall
  /\ LET x == WithBody(GD("quantitySet"), nextId, "record", FALSE)
     IN GPut(Dispatched(x, launchInternal(x.d, Cmd("Task", nextId), FALSE)))
  /\ nextId' = nextId + 1

\* boolean.set(value) on an async platform: set calls setSync, which
\* records at once if shouldRecord(Context.uploadEnabled).
GBooleanSet ==
  LET x == GD("booleanSet")
  IN GPut([x EXCEPT !.g.userData = @ \/ Recording(x.g)]) /\ UNCHANGED nextId

\* ping.submit(): a dispatched task collects the ping, which carries the
\* stored client_id, and hands it to the pings database.
GSubmit ==
  /\ nextId <= MaxTasks
  /\ CallerMayCall
  /\ LET x == WithBody(GD("submit"), nextId, "submit", FALSE)
     IN GPut(Dispatched(x, launchInternal(x.d, Cmd("Task", nextId), FALSE)))
  /\ nextId' = nextId + 1

\* The body of the running task goes on after an await.
GTaskStep ==
  \E d \in Dates :
    /\ glean.pc # "end"
    /\ GPut([d |-> D, g |-> TaskBody([glean EXCEPT !.call = "none", !.submitted = "no"], d)])
    /\ UNCHANGED nextId

\* The running task's body has returned: its promise resolves.
GSettle ==
  \E e \in inflight :
    /\ e.id = glean.run /\ glean.pc = "end"
    /\ LET x == GD("none")
       IN GPut([x EXCEPT !.d.inflight = @ \ {e},
                         !.d.micro = Append(@, [type |-> "cont", id |-> e.id, cmd |-> e.cmd,
                                                ok |-> TRUE, cur |-> e.cur, aw |-> e.aw]),
                         !.d.task = SetSt(@, {e.id}, "done")])
    /\ UNCHANGED nextId

\* The oldest job of the microtask queue runs.
GMicroStep ==
  /\ micro # <<>>
  /\ LET j == Head(micro)
         x == GD("none")
         r == [x.d EXCEPT !.micro = Tail(@)]
     IN GPut(Dispatched(x, CASE j.type = "then" -> ThenCallback(r)
                             [] j.type = "cont" -> Cont(r, j)
                             [] OTHER -> Uninitialize(r)))
  /\ UNCHANGED nextId

(***************************************************************************)
(* The pings maker: the metrics stored for one ping name, collectPing and  *)
(* collectAndStorePing.  A collection runs within one dispatched task and  *)
(* is one step.                                                            *)
(***************************************************************************)

\* The metrics sent in the ping: one per lifetime with a plain identifier
\* and one per lifetime whose identifier starts with
\* RESERVED_METRIC_IDENTIFIER_PREFIX.
PMKeys == [lifetime : Lifetimes, reserved : BOOLEAN]

\* TimeUnit.Minute applied to a date: a minute lasts two ticks of the clock.
Minute(t) == (t \div 2) * 2

\* Before anything is recorded, at Context.startTime (tick 0).  History kept
\* for the properties: epoch (the clearAll calls so far), built (the
\* collections that built a ping_info section since the last clearAll).
NoPing ==
  [store |-> [k \in PMKeys |-> 0], events |-> FALSE, seqStored |-> 0, startStored |-> {},
   now |-> 0, stamp |-> 0, recorded |-> <<>>, epoch |-> 0, built |-> 0]

\* collectPing returned undefined.
NoPayload ==
  [some |-> FALSE, metrics |-> {}, events |-> FALSE, seq |-> 0, start |-> 0, end |-> 0,
   epoch |-> 0, nth |-> 0]

\* getPingMetrics that copies every stored identifier into the payload.
getPingMetricsUnfiltered(p, clearPingLifetimeData) ==
  LET data == {k \in PMKeys : p.store[k] # 0}
      pingData == {k \in data : k.lifetime = "ping"}
  IN [p |-> IF clearPingLifetimeData /\ pingData # {}
            THEN [p EXCEPT !.store = [k \in PMKeys |-> IF k.lifetime = "ping" THEN 0 ELSE @[k]]]
            ELSE p,
      ret |-> {[key |-> k, value |-> p.store[k]] : k \in data}]

\* getPingMetrics that never clears the ping lifetime data.
getPingMetricsKeepsPingData(p, clearPingLifetimeData) ==
  LET data == {k \in PMKeys : p.store[k] # 0}
  IN [p |-> p,
      ret |-> {[key |-> k, value |-> p.store[k]] : k \in {x \in data : ~x.reserved}}]

\* MetricsDatabase.getPingMetrics: the data of the three lifetimes is read,
\* the ping lifetime data is cleared if there is any, and the identifiers
\* without the reserved prefix make the payload (the empty set: undefined).
getPingMetrics(p, clearPingLifetimeData) ==
  LET data == {k \in PMKeys : p.store[k] # 0}
      pingData == {k \in data : k.lifetime = "ping"}
  IN [p |-> IF clearPingLifetimeData /\ pingData # {}
            THEN [p EXCEPT !.store = [k \in PMKeys |-> IF k.lifetime = "ping" THEN 0 ELSE @[k]]]
            ELSE p,
      ret |-> {[key |-> k, value |-> p.store[k]] : k \in {x \in data : ~x.reserved}}]

\* getSequenceNumber without its seq.addUndispatched(1).
getSequenceNumberNoAdd(p) ==
  [p |-> p, ret |-> IF p.seqStored # 0 THEN p.seqStored ELSE 0]

\* getSequenceNumber: the stored counter is read, then incremented; the
\* value read is returned, 0 if there was none.
getSequenceNumber(p) ==
  [p |-> [p EXCEPT !.seqStored = @ + 1],
   ret |-> IF p.seqStored # 0 THEN p.seqStored ELSE 0]

\* getStartEndTimes without its startTimeMetric.setUndispatched(endTimeData).
getStartEndTimesKeepsStart(p) ==
  [p |-> p,
   startTime |-> IF p.startStored # {} THEN Minute(CHOOSE t \in p.startStored : TRUE)
                 ELSE Minute(0),
   endTime |-> Minute(p.now)]

\* getStartEndTimes with getStartTimeMetricAndData: the start time is the
\* stored one, or Context.startTime; the present date is stored as the next
\* start time; both are returned to minute precision.
getStartEndTimes(p) ==
  [p |-> [p EXCEPT !.startStored = {p.now}],
   startTime |-> IF p.startStored # {} THEN Minute(CHOOSE t \in p.startStored : TRUE)
                 ELSE Minute(0),
   endTime |-> Minute(p.now)]

\* collectPing that never bails out on an empty storage.
collectPingSendsEmpty(p, sendIfEmpty) ==
  LET gm == getPingMetrics([p EXCEPT !.events = FALSE], TRUE)
      sq == getSequenceNumber(gm.p)
      se == getStartEndTimes(sq.p)
  IN [p |-> [se.p EXCEPT !.built = @ + 1],
      payload |-> [some |-> TRUE, metrics |-> gm.ret, events |-> p.events,
                   seq |-> sq.ret, start |-> se.startTime, end |-> se.endTime,
                   epoch |-> p.epoch, nth |-> p.built]]

\* collectPing: getPingEvents and getPingMetrics (both clearing), the
\* bail-out on an empty storage, then buildPingInfoSection.
collectPing(p, sendIfEmpty) ==
  LET gm == getPingMetrics([p EXCEPT !.events = FALSE], TRUE)
      sq == getSequenceNumber(gm.p)
      se == getStartEndTimes(sq.p)
  IN IF gm.ret = {} /\ ~p.events /\ ~sendIfEmpty
     THEN [p |-> gm.p, payload |-> NoPayload]
     ELSE [p |-> [se.p EXCEPT !.built = @ + 1],
           payload |-> [some |-> TRUE, metrics |-> gm.ret, events |-> p.events,
                        seq |-> sq.ret, start |-> se.startTime, end |-> se.endTime,
                        epoch |-> p.epoch, nth |-> p.built]]

\* collectAndStorePing; `throws`: the afterPingCollection plugin throws.
collectAndStorePing(p, sendIfEmpty, throws) ==
  LET c == collectPing(p, sendIfEmpty)
  IN IF ~c.payload.some \/ throws THEN c.p
     ELSE [c.p EXCEPT !.recorded = Append(@, c.payload)]

\* A metric sent in the ping is recorded, with a value not recorded before.
PmRecord ==
  \E k \in PMKeys :
    /\ pm.stamp < MaxStamp
    /\ pm' = [pm EXCEPT !.stamp = @ + 1, !.store[k] = pm.stamp + 1]
    /\ UNCHANGED <<avars, svars, dvars, gvars, hvars>>

\* An event sent in the ping is recorded.
PmRecordEvent ==
  /\ ~pm.events
  /\ pm' = [pm EXCEPT !.events = TRUE]
  /\ UNCHANGED <<avars, svars, dvars, gvars, hvars>>

\* ping.submit() with upload enabled: the task runs collectAndStorePing.
PmSubmit ==
  \E sendIfEmpty \in BOOLEAN, throws \in BOOLEAN :
    /\ pm.built < MaxPings /\ Len(pm.recorded) < MaxPings
    /\ pm' = collectAndStorePing(pm, sendIfEmpty, throws)
    /\ UNCHANGED <<avars, svars, dvars, gvars, hvars>>

\* Time passes.
PmTick ==
  /\ pm.now < MaxClock
  /\ pm' = [pm EXCEPT !.now = @ + 1]
  /\ UNCHANGED <<avars, svars, dvars, gvars, hvars>>

\* clearMetrics on upload disabled: metricsDatabase.clearAll and
\* eventsDatabase.clearAll.
PmClearAll ==
  /\ pm.epoch < MaxEpoch
  /\ pm' = [pm EXCEPT !.store = [k \in PMKeys |-> 0], !.events = FALSE,
                      !.seqStored = 0, !.startStored = {},
                      !.epoch = @ + 1, !.built = 0]
  /\ UNCHANGED <<avars, svars, dvars, gvars, hvars>>

(***************************************************************************)
(* PrecomputedExponential: the bucket ranges and the lookup of a sample.   *)
(* Edges and samples are integers; Math.log, Math.exp and Math.round are   *)
(* taken as exact.                                                         *)
(***************************************************************************)

MaxRangeMin == 3
MaxRangeMax == 12
MaxBucketCount == 5
MaxSample == 14

\* A PrecomputedExponential as its constructor leaves it.
NoBuckets == [min |-> 1, max |-> 1, bucketCount |-> 1, bucketRanges |-> <<>>,
              sample |-> 0, limit |-> 0, ret |-> 0, thrown |-> FALSE]

\* Math.round(Math.exp(logCurrent + (logMax - logCurrent) / k)): the integer
\* nearest to the k-th root of current^(k-1) * max, which is the r with
\* (2r-1)^k <= 2^k * current^(k-1) * max < (2r+1)^k; Math.log(0) is
\* -Infinity and gives 0.
RoundExp(current, max, k) ==
  LET RECURSIVE Pow(_, _)
      Pow(b, e) == IF e = 0 THEN 1 ELSE b * Pow(b, e - 1)
      x == Pow(2, k) * Pow(current, k - 1) * max
      top == IF current > max THEN current + 1 ELSE max + 1
  IN IF max = 0 THEN 0
     ELSE CHOOSE r \in 1..top : Pow(2 * r - 1, k) <= x /\ x < Pow(2 * r + 1, k)

\* An edge that would not grow by the exponential step grows by 1.
NextEdgeNoStep(current, nextValue) == nextValue

\* if (nextValue > current) current = nextValue; else current += 1;
NextEdge(current, nextValue) == IF nextValue > current THEN nextValue ELSE current + 1

\* exponentialRange(min, max, bucketCount)
exponentialRange(min, max, bucketCount) ==
  LET RECURSIVE Extend(_, _, _)
      Extend(ranges, current, i) ==
        IF i >= bucketCount THEN ranges
        ELSE LET next == NextEdge(current, RoundExp(current, max, bucketCount - i))
             IN Extend(Append(ranges, next), next, i + 1)
      first == IF min = 0 THEN 1 ELSE min
  IN Extend(<<0, first>>, first, 2)

\* binarySearch(ranges, sample): the index i (from 0) of the bucket with
\* bucket[i] <= sample < bucket[i+1], the last bucket having no upper edge;
\* -1 when there is none.
binarySearch(ranges, sample) ==
  LET found == {i \in 0..(Len(ranges) - 1) :
                  /\ ranges[i + 1] <= sample
                  /\ i + 1 < Len(ranges) => sample < ranges[i + 2]}
  IN IF found = {} THEN -1 ELSE CHOOSE i \in found : \A j \in found : i <= j

\* PrecomputedExponential.sampleToBucketMinimum, with ranges() filling the
\* cache on its first use.
sampleToBucketMinimum(b, sample) ==
  LET ranges == IF Len(b.bucketRanges) > 0 THEN b.bucketRanges
                ELSE exponentialRange(b.min, b.max, b.bucketCount)
      limit == binarySearch(ranges, sample)
  IN [b EXCEPT !.bucketRanges = ranges, !.sample = sample, !.limit = limit,
               !.thrown = (limit = -1),
               !.ret = IF limit = -1 THEN 0 ELSE ranges[limit + 1]]

\* new PrecomputedExponential(min, max, bucketCount)
BkNew ==
  \E min \in 0..MaxRangeMin, max \in 0..MaxRangeMax, bucketCount \in 1..MaxBucketCount :
    /\ bk' = [NoBuckets EXCEPT !.min = min, !.max = max, !.bucketCount = bucketCount]
    /\ UNCHANGED <<avars, svars, dvars, gvars, pvars, td>>

\* sampleToBucketMinimum(sample)
BkSample ==
  \E sample \in (-1)..MaxSample :
    /\ bk' = sampleToBucketMinimum(bk, sample)
    /\ UNCHANGED <<avars, svars, dvars, gvars, pvars, td>>

(***************************************************************************)
(* A timing distribution metric of time unit nanosecond, sent in one ping, *)
(* and the dispatcher its calls launch tasks on. The dispatcher is the     *)
(* async one seen from its callers: a task launched on an idle dispatcher  *)
(* runs within the call, up to its first await; any other waits in the     *)
(* queue. The storage operations a task awaits are taken as one step.      *)
(***************************************************************************)

MaxTimers == 2
MaxLaunch == 4
MaxNow == 5

\* MAX_SAMPLE_TIME, ten minutes in nanoseconds, scaled down.
MAX_SAMPLE_TIME == 3

\* The bucket minimums of the samples up to MAX_SAMPLE_TIME.
Buckets == {1, 2}

NoTask == [kind |-> "none", id |-> 0, time |-> 0, samples |-> <<>>, afterCancel |-> FALSE]

\* The metric as its constructor leaves it, before Glean.initialize, with an
\* empty storage. launched counts the tasks launched, accumulated the samples
\* given to histogram.accumulate or appended to the values of a histogram
\* that was stored, cancelled holds the timers cancel was called for, last
\* is the task that ran last.
NoTiming == [startTimes |-> [i \in 1..MaxTimers |-> 0], nextTimer |-> 1, now |-> 1,
             state |-> "Uninitialized", queue |-> <<>>, uploadEnabled |-> FALSE,
             stored |-> [b \in Buckets |-> 0],
             errors |-> [e \in {"InvalidValue", "InvalidOverflow", "InvalidState"} |-> 0],
             launched |-> 0, accumulated |-> 0, cancelled |-> {}, last |-> NoTask]

\* The functional bucketing of a sample: the minimum of its bucket, the
\* buckets growing by powers of 2.
FunctionalBucket(sample) ==
  CHOOSE b \in Buckets : b <= sample /\ \A c \in Buckets : c <= sample => c <= b

\* constructFunctionalHistogramFromValues(values).values: every value is
\* accumulated once into the bucket it falls in.
constructFunctionalHistogramFromValues(values) ==
  [b \in Buckets |-> Cardinality({i \in DOMAIN values : FunctionalBucket(values[i]) = b})]

\* extractDurationValuesFrom(jsonValue): the keys of the stored object, in
\* the order of Object.keys.
extractDurationValuesFrom(stored) ==
  LET keys == {b \in Buckets : stored[b] > 0}
      RECURSIVE Ascending(_)
      Ascending(ks) == IF ks = {} THEN <<>>
                       ELSE LET k == CHOOSE x \in ks : \A y \in ks : x <= y
                            IN <<k>> \o Ascending(ks \ {k})
  IN Ascending(keys)

\* The tasks launched by start, stopAndAccumulate and accumulateSamples.
TdTaskBody(t, tk) ==
  LET t1 == [t EXCEPT !.last = tk]
      Err(r, e, n) == [r EXCEPT !.errors[e] = @ + n]
      values == extractDurationValuesFrom(t.stored)
  IN CASE tk.kind = "start" -> [t1 EXCEPT !.startTimes[tk.id] = tk.time]
       [] tk.kind = "stop" ->
            LET startTime == t.startTimes[tk.id]
                t2 == [t1 EXCEPT !.startTimes[tk.id] = 0]
                duration == tk.time - startTime
                truncated == IF duration < 1 THEN 1
                             ELSE IF duration > MAX_SAMPLE_TIME THEN MAX_SAMPLE_TIME
                             ELSE duration
                t3 == IF duration > MAX_SAMPLE_TIME THEN Err(t2, "InvalidState", 1) ELSE t2
            IN IF ~t.uploadEnabled THEN t2
               ELSE IF startTime = 0 THEN Err(t1, "InvalidValue", 1)
               ELSE IF duration < 0 THEN Err(t2, "InvalidValue", 1)
               ELSE [t3 EXCEPT !.stored = constructFunctionalHistogramFromValues(
                                            Append(values, truncated)),
                               !.accumulated = @ + 1]
       [] tk.kind = "samples" ->
            LET negative == {i \in DOMAIN tk.samples : tk.samples[i] < 0}
                tooLong == {i \in DOMAIN tk.samples : tk.samples[i] > MAX_SAMPLE_TIME}
                kept == SelectSeq(tk.samples, LAMBDA x : x >= 0)
                Fit(x) == IF x = 0 THEN 1 ELSE IF x > MAX_SAMPLE_TIME THEN MAX_SAMPLE_TIME ELSE x
                histogram == constructFunctionalHistogramFromValues(
                               values \o [i \in DOMAIN kept |-> Fit(kept[i])])
            IN IF ~t.uploadEnabled THEN t1
               \* new TimingDistributionMetric({}) does not validate: the
               \* transformation throws and the task ends.
               ELSE IF \A b \in Buckets : histogram[b] = 0 THEN t1
               ELSE Err([t1 EXCEPT !.stored = histogram, !.accumulated = @ + Len(kept)],
                        "InvalidOverflow", Cardinality(negative) + Cardinality(tooLong))

\* Context.dispatcher.launch(task)
TdLaunch(t, tk) ==
  LET l == [t EXCEPT !.launched = @ + 1]
  IN IF t.state = "Idle" THEN [TdTaskBody(l, tk) EXCEPT !.state = "Processing"]
     ELSE [l EXCEPT !.queue = Append(@, tk)]

\* Time passes between two calls.
TdPut(t) ==
  /\ \E dt \in {0, 1, MAX_SAMPLE_TIME + 1} :
       /\ t.now + dt <= MaxNow
       /\ td' = [t EXCEPT !.now = @ + dt]
  /\ UNCHANGED <<avars, svars, dvars, gvars, pvars, bk>>

\* start()
TdStart ==
  /\ td.nextTimer <= MaxTimers
  /\ td.launched < MaxLaunch
  /\ TdPut(TdLaunch([td EXCEPT !.nextTimer = @ + 1],
                    [NoTask EXCEPT !.kind = "start", !.id = td.nextTimer, !.time = td.now]))

\* stopAndAccumulate(id), for an id that start returned
TdStopAndAccumulate ==
  \E id \in 1..(td.nextTimer - 1) :
    /\ td.launched < MaxLaunch
    /\ TdPut(TdLaunch(td, [NoTask EXCEPT !.kind = "stop", !.id = id, !.time = td.now,
                                         !.afterCancel = id \in td.cancelled]))

\* cancel(id), for an id that start returned
TdCancel ==
  \E id \in 1..(td.nextTimer - 1) :
    /\ id \notin td.cancelled
    /\ TdPut([td EXCEPT !.startTimes[id] = 0, !.cancelled = @ \cup {id}])

\* accumulateSamples(samples)
TdAccumulateSamples ==
  \E samples \in {<<-1>>, <<1>>, <<4>>, <<-1, 1>>, <<1, 1>>, <<3, 2>>} :
    /\ td.launched < MaxLaunch
    /\ TdPut(TdLaunch(td, [NoTask EXCEPT !.kind = "samples", !.samples = samples]))

\* Glean.initialize(applicationId, uploadEnabled): the init task sets
\* Context.uploadEnabled, and the tasks that waited follow it.
TdFlushInit ==
  \E uploadEnabled \in BOOLEAN :
    /\ td.state = "Uninitialized"
    /\ TdPut([td EXCEPT !.state = "Processing", !.uploadEnabled = uploadEnabled])

\* The task in execution has settled: the next one starts, or the
\* dispatcher becomes idle.
TdSettle ==
  /\ td.state = "Processing"
  /\ td' = IF td.queue = <<>> THEN [td EXCEPT !.state = "Idle"]
           ELSE TdTaskBody([td EXCEPT !.queue = Tail(@)], Head(td.queue))
  /\ UNCHANGED <<avars, svars, dvars, gvars, pvars, bk>>

\* Both dispatchers as their constructors leave them, Context.initialized
\* as the Context starts, an empty storage, and Glean before initialize.
Init ==
  /\ queue = <<>>
  /\ state = "Uninitialized"
  /\ shuttingDown = FALSE
  /\ jobDone = TRUE
  /\ inflight = {}
  /\ micro = <<>>
  /\ nextId = 1
  /\ task = [i \in Ids |-> [kind |-> "none", st |-> "new"]]
  /\ resolved = {}
  /\ shutFrom = 0
  /\ initFailed = FALSE
  /\ ev = {}
  /\ syncQueue = <<>>
  /\ preInitQueue = <<>>
  /\ syncState = "Uninitialized"
  /\ syncShuttingDown = FALSE
  /\ contextInitialized = FALSE
  /\ syncNextId = 1
  /\ syncTask = [i \in Ids |-> [kind |-> "none", st |-> "new"]]
  /\ syncOrder = <<>>
  /\ syncResolved = {}
  /\ syncInitFailed = FALSE
  /\ syncEv = {}
  /\ dbStore = [l \in Lifetimes |-> [p \in PingNames |-> "undefined"]]
  /\ dbErrors = [p \in PingNames |-> 0]
  /\ dbCall = NoCall
  /\ glean = NoGlean
  /\ pm = NoPing
  /\ bk = NoBuckets
  /\ td = NoTiming

NextSync ==
  \/ SyncLaunch
  \/ SyncLaunchPersistent
  \/ SyncTestLaunchCall
  \/ SyncFlushInitCall
  \/ SyncClearCall
  \/ SyncStopCall
  \/ SyncResumeCall
  \/ SyncShutdownCall
  \/ SyncTestUninitializeCall
  \/ SyncInitializeCall
  \/ SetContextInitialized

SpecSync == Init /\ [][NextSync]_vars

\* The dispatcher as the SDK uses it.
NextAsync ==
  \/ Launch
  \/ LaunchPersistent
  \/ TestLaunch
  \/ FlushInit
  \/ ClearCall
  \/ StopCall
  \/ ResumeCall
  \/ ShutdownCall
  \/ TaskSettle
  \/ MicroStep

Spec == Init /\ [][NextAsync]_vars

\* The dispatcher with the test-only reset.
NextUninit ==
  \/ Launch
  \/ FlushInit
  \/ ClearCall
  \/ StopCall
  \/ ResumeCall
  \/ ShutdownCall
  \/ TestUninitializeCall
  \/ TaskSettle
  \/ MicroStep

SpecUninit == Init /\ [][NextUninit]_vars

NextDb ==
  \/ DbRecord
  \/ DbTransform
  \/ DbGetMetric
  \/ DbClear
  \/ DbClearAll
  \/ DbBooleanSet
  \/ DbCorrupt

\* The metrics database under recording, reading, clearing and corruption
\* of its storage.
SpecDb == Init /\ [][NextDb]_vars

NextGlean ==
  \/ GInitialize
  \/ GSetUploadEnabled
  \/ GQuantitySet
  \/ GBooleanSet
  \/ GSubmit
  \/ GTaskStep
  \/ GSettle
  \/ GMicroStep

\* Glean on an async platform under the calls of an application.
SpecGlean == Init /\ [][NextGlean]_vars

NextPing ==
  \/ PmRecord
  \/ PmRecordEvent
  \/ PmSubmit
  \/ PmTick
  \/ PmClearAll

SpecPing == Init /\ [][NextPing]_vars

NextBuckets ==
  \/ BkNew
  \/ BkSample

SpecBuckets == Init /\ [][NextBuckets]_vars

NextTiming ==
  \/ TdStart
  \/ TdStopAndAccumulate
  \/ TdCancel
  \/ TdAccumulateSamples
  \/ TdFlushInit
  \/ TdSettle

SpecTiming == Init /\ [][NextTiming]_vars

(***************************************************************************)
(* Properties.                                                             *)
(***************************************************************************)

TypeOK ==
  /\ state \in DispatcherState
  /\ syncState \in DispatcherState
  /\ \A i \in DOMAIN queue : queue[i].cmd \in Commands
  /\ shuttingDown \in BOOLEAN

\* Number of execute() invocations that have not returned.
ActiveLoops == Cardinality(inflight) + Cardinality({i \in DOMAIN micro : micro[i].type = "cont"})

\* The tasks handed over by launch, launchPersistent and testLaunch.
Launched(i) == task[i].kind \in {"Task", "PersistentTask", "TestTask"}

\* No task starts in the step.
NoTaskStarts == \A i \in Ids : task[i].st # "running" => task'[i].st # "running"

BufferedTasks(q) == Cardinality({k \in DOMAIN q : q[k].cmd \in TaskCommands})

\* C1: of two tasks launched one after the other, the later one executes
\* only once the earlier one has settled (or was dropped or cleared).
ClaimC1 ==
  \A a \in Ids, b \in Ids :
    (a < b /\ Launched(a) /\ Launched(b) /\ task[b].st \in {"running", "done"})
      => task[a].st \notin {"queued", "running"}

\* C2: at most one execute() loop is active and at most one task is in
\* flight at any instant.
ClaimC2 == ActiveLoops <= 1 /\ Cardinality(inflight) <= 1

\* C3: while a dispatcher is uninitialized it buffers at most
\* maxPreInitQueueSize tasks, the async one in queue and the sync one in
\* preInitQueue and queue.
ClaimC3 ==
  /\ state = "Uninitialized" => BufferedTasks(queue) <= maxPreInitQueueSize
  /\ syncState = "Uninitialized" => BufferedTasks(preInitQueue \o syncQueue) <= maxPreInitQueueSize

\* C4: a step that executes a Clear command removes every queued Task,
\* TestTask and InitTask, removes no queued PersistentTask and no Shutdown
\* command (unless the step goes on to execute that Shutdown), and a
\* clear() called on a stopped dispatcher executes its Clear command in
\* the same step.
ClaimC4 ==
  [][/\ "clear" \in ev' =>
          /\ \A i \in Ids :
               (task[i].st = "queued" /\ task[i].kind # "PersistentTask") => task'[i].st = "removed"
          /\ "shutdown" \notin ev' =>
               /\ \A i \in Ids :
                    (task[i].st = "queued" /\ task[i].kind = "PersistentTask")
                      => task'[i].st \in {"queued", "running"}
               /\ (\E k \in DOMAIN queue : queue[k].cmd = "Shutdown")
                      => (\E k \in DOMAIN queue' : queue'[k].cmd = "Shutdown")
     /\ ("callClear" \in ev' /\ state = "Stopped") => "clear" \in ev'
    ]_vars

\* A clear() on a stopped dispatcher has removed a task and kept a
\* persistent one.
WitnessC4 ==
  /\ {"callClear", "resume", "clear"} \subseteq ev
  /\ \E i \in Ids : task[i].st = "removed"
  /\ \E i \in Ids : task[i].kind = "PersistentTask" /\ task[i].st \in {"queued", "running"}

\* C5 as stated: the Shutdown state is never left, and a task launched in
\* it is neither enqueued nor executed.
ClaimC5Original ==
  [][state = "Shutdown" =>
       /\ state' = "Shutdown"
       /\ \A i \in Ids : task[i].st \in {"new", "dropped"} => task'[i].st \in {"new", "dropped"}
    ]_vars

\* C5 amended: the Shutdown state is left only by the reset of the
\* test-only testUninitialize, and a task launched in the Shutdown state
\* is neither enqueued nor executed.
ClaimC5 ==
  [][state = "Shutdown" =>
       /\ state' = "Shutdown" \/ (state' = "Uninitialized" /\ "uninit" \in ev')
       /\ \A i \in Ids : task[i].st \in {"new", "dropped"} => task'[i].st \in {"new", "dropped"}
    ]_vars

\* A task was launched on a shut down dispatcher and dropped.
WitnessC5 == state = "Shutdown" /\ \E i \in Ids : task[i].st = "dropped"

\* C6: no task launched after shutdown() is executed; when the dispatcher
\* reaches Shutdown no task launched before shutdown() is still running,
\* and the Shutdown command discards none of them; shutdown() called on a
\* stopped dispatcher leaves it not stopped.
ClaimC6 ==
  [][/\ \A i \in Ids :
          (shutFrom' # 0 /\ i >= shutFrom' /\ Launched(i)') => task'[i].st \notin {"running", "done"}
     /\ state' = "Shutdown" => \A i \in Ids : i < shutFrom' => task'[i].st # "running"
     /\ ("shutdown" \in ev' /\ "clear" \notin ev') =>
          \A i \in Ids : (task[i].st = "queued" /\ i < shutFrom') => task'[i].st # "removed"
     /\ ("callShutdown" \in ev' /\ state = "Stopped") => state' # "Stopped"
    ]_vars

\* C7: while the dispatcher is Stopped, a step that does not resume it
\* starts no task, and a task launched in it is enqueued.
ClaimC7 ==
  [][(state = "Stopped" /\ "resume" \notin ev') =>
       /\ NoTaskStarts
       /\ \A i \in Ids : (task[i].st = "new" /\ task'[i].st # "new") => task'[i].st = "queued"
    ]_vars

\* C8: when a Task, PersistentTask or TestTask has thrown, execute() goes
\* on as after a success: no command is added to the queue, the failure
\* is not recorded as an initialization failure, with an empty queue the
\* state is unchanged, and if a task is next in the queue it is started.
ClaimC8 ==
  [][("taskfail" \in ev') =>
       /\ initFailed' = initFailed
       /\ Len(queue') <= Len(queue)
       /\ queue = <<>> => state' = state
       /\ (queue # <<>> /\ Head(queue).cmd \in TaskCommands) =>
            /\ state' = state
            /\ queue' = Tail(queue)
            /\ task'[Head(queue).id].st = "running"
    ]_vars

\* A task has thrown and the next task of the queue has been started.
WitnessC8 == "taskfail" \in ev /\ \E e \in inflight : task[e.id].st = "running"

\* C9: once the InitTask has failed no task is started any more.
ClaimC9 == [][initFailed' => NoTaskStarts]_vars

\* C10: when nothing is running and nothing is pending in a dispatcher
\* that is neither uninitialized nor stopped, every accepted TestTask has
\* had its resolver called.
ClaimC10 ==
  (micro = <<>> /\ inflight = {} /\ state \in {"Idle", "Processing", "Shutdown"})
    => \A i \in Ids :
         (task[i].kind = "TestTask" /\ task[i].st \notin {"new", "dropped"}) => i \in resolved


\* The tasks handed to the sync dispatcher by launch, launchPersistent and
\* testLaunch.
SyncLaunched(i) == syncTask[i].kind \in {"Task", "PersistentTask", "TestTask"}

\* C11: a task launched on an Idle sync dispatcher is executed within the
\* launching call (unless that call runs into a Stop, Clear or Shutdown
\* command), and the launched tasks are executed in the order of their
\* launch, those of preInitQueue before those of queue.
ClaimC11 ==
  [][/\ \A i \in Ids :
          (syncState = "Idle" /\ syncTask[i].st = "new" /\ SyncLaunched(i)'
             /\ syncEv' \cap {"stop", "clear", "shutdown"} = {})
            => syncTask'[i].st = "done"
     /\ \A p \in DOMAIN syncOrder', q \in DOMAIN syncOrder' :
          (p < q /\ syncTask'[syncOrder'[p]].kind # "InitTask"
                 /\ syncTask'[syncOrder'[q]].kind # "InitTask")
            => syncOrder'[p] < syncOrder'[q]
    ]_vars


\* C19: a record, a transform or a set on a metric with disabled = true
\* changes no entry of any lifetime store and records no error.
ClaimC19 ==
  [][(dbCall'.op \in {"record", "transform", "set"} /\ dbCall'.disabled)
       => (dbStore' = dbStore /\ dbErrors' = dbErrors)
    ]_vars

\* A disabled metric was recorded to while the storage held data.
WitnessC19 ==
  /\ dbCall.op \in {"record", "transform"}
  /\ dbCall.disabled
  /\ \E l \in Lifetimes, p \in PingNames : dbStore[l][p] = "true"

\* C20: getMetric(ping, metric) returns the stored value when there is
\* none or when it passes the validator, leaving the storage as it was;
\* when the stored value fails the validator it returns undefined and that
\* entry, and no other, is deleted.
ClaimC20 ==
  [][dbCall'.op = "getMetric" =>
       LET l == dbCall'.lifetime
           p == dbCall'.ping
           v == dbStore[l][p]
       IN IF v = "undefined" \/ validate(v)
          THEN dbCall'.ret = v /\ dbStore' = dbStore
          ELSE /\ dbCall'.ret = "undefined"
               /\ dbStore' = [dbStore EXCEPT ![l][p] = "undefined"]
    ]_vars

\* getMetric has found a corrupted value: it returned undefined and no
\* corrupted entry is left.
WitnessC20 ==
  /\ dbCall.op = "getMetric"
  /\ dbCall.log
  /\ dbCall.ret = "undefined"
  /\ Corrupted = {}
  /\ \E l \in Lifetimes, p \in PingNames : dbStore[l][p] \in {"true", "false"}


\* Glean apart from the record of the last call is as it was.
GleanKept ==
  [glean' EXCEPT !.call = "none", !.submitted = "no"]
    = [glean EXCEPT !.call = "none", !.submitted = "no"]

\* The dispatcher and the tasks handed to it are as they were.
DispatcherKept ==
  <<queue, state, shuttingDown, jobDone, inflight, micro, nextId, task>>'
    = <<queue, state, shuttingDown, jobDone, inflight, micro, nextId, task>>

\* C12: a call of initialize made once Context.initialized is set (the first
\* call sets it before it returns), at whatever point of the init task's
\* execution, changes nothing of Glean (configuration, upload-enabled,
\* stored data, pending pings) and enqueues no task.
ClaimC12 ==
  [][(glean'.call = "initialize" /\ glean.initialized)
       => (GleanKept /\ DispatcherKept /\ glean'.submitted = "no")]_vars

\* A later initialize call made while the init task is between two awaits.
WitnessC12 ==
  /\ glean.call = "initialize"
  /\ glean.pc \in {"firstRunDate", "clear3"}
  /\ glean.body[glean.run].kind = "init"

\* C13: setUploadEnabled called while Context.initialized is false
\* dispatches no task and changes neither upload-enabled nor stored data.
ClaimC13 ==
  [][(glean'.call = "setUploadEnabled" /\ ~glean.initialized)
       => (GleanKept /\ DispatcherKept /\ glean'.submitted = "no")]_vars

\* setUploadEnabled has been called before initialize, a recording waiting
\* in the queue of the uninitialized dispatcher.
WitnessC13 ==
  /\ glean.call = "setUploadEnabled"
  /\ ~glean.initialized
  /\ state = "Uninitialized"
  /\ Len(queue) = 1

\* The running task completes a transition to upload disabled: the last
\* step of clearMetrics, in a task other than the init task of a first run.
DisableCompletes ==
  /\ glean.pc = "clear4"
  /\ glean'.pc = "end"
  /\ ~(glean.body[glean.run].kind = "init" /\ glean.fresh)

\* C14: in a transition from upload enabled to disabled a deletion-request
\* ping is submitted; the clearing step leaves no metric and no pending
\* ping; and when the transition completes first_run_date holds the value
\* it had before, client_id is KNOWN_CLIENT_ID and uploadEnabled is false.
ClaimC14 ==
  [][/\ DisableCompletes =>
          /\ glean.delSent
          /\ glean'.firstRunDate = glean.prevDate
          /\ glean'.clientId = "known"
          /\ glean'.uploadEnabled = "false"
     /\ (glean.pc = "clear1" /\ glean'.pc = "clear2") =>
          /\ ~glean'.userData /\ ~glean'.pending
          /\ glean'.clientId = "none" /\ glean'.firstRunDate = "none"
    ]_vars

\* A setUploadEnabled(false) has completed the transition: data had been
\* stored, the deletion-request was submitted, first_run_date is kept.
WitnessC14 ==
  /\ glean.run # 0
  /\ glean.body[glean.run] = [kind |-> "upload", flag |-> FALSE]
  /\ glean.pc = "end"
  /\ glean.delSent
  /\ glean.firstRunDate = "d2"
  /\ glean.clientId = "known"
  /\ glean.uploadEnabled = "false"

\* The step in which onUploadDisabled collects the deletion-request.
DeletionRequestSubmitted ==
  /\ glean.pc = "end"
  /\ glean'.pc = "clear1"
  /\ glean'.delSent
  /\ glean'.submitted # "no"

\* The next dispatched task starts only when the running one has returned,
\* and after a clearMetrics it finds uploadEnabled false.
RestoredBeforeNextTask ==
  (glean'.run # glean.run) =>
     (glean.pc = "end" /\ (glean.saved # "none" => glean.uploadEnabled = "false"))

\* C15 as the specification states it: uploadEnabled is true while the
\* deletion-request is submitted, and false again before the next
\* dispatched task runs.
ClaimC15Original ==
  [][/\ DeletionRequestSubmitted => glean'.uploadEnabled = "true"
     /\ RestoredBeforeNextTask]_vars

\* C15: the deletion-request is submitted on the undispatched path with
\* uploadEnabled already false; uploadEnabled = true is asserted only
\* later, while clearMetrics writes client_id and first_run_date; and
\* uploadEnabled is false again before the next dispatched task runs.
ClaimC15 ==
  [][/\ DeletionRequestSubmitted => glean'.uploadEnabled = "false"
     /\ (glean'.saved # "none" /\ glean'.uploadEnabled = "true")
          => glean'.pc \in {"clear3", "clear4"}
     /\ RestoredBeforeNextTask]_vars

\* uploadEnabled = true is asserted inside a transition that submitted a
\* deletion-request, while a dispatched task waits in the queue.
WitnessC15 ==
  /\ glean.delSent
  /\ glean.pc = "clear4"
  /\ glean.uploadEnabled = "true"
  /\ Len(queue) >= 1

\* C16: while the init task of a first run (no client_id stored) with
\* uploadEnabled false executes, no deletion-request and no other ping is
\* submitted; the task goes through clearMetrics, whose clearing step
\* leaves no metric and no pending ping.
ClaimC16 ==
  [][(glean'.run # 0 /\ glean'.body[glean'.run] = [kind |-> "init", flag |-> FALSE]
        /\ glean'.fresh)
       => /\ glean'.submitted = "no"
          /\ ~glean'.delSent
          /\ glean'.pc # "start" /\ (glean'.pc = "end" => glean'.saved # "none")
          /\ (glean.pc = "clear1" /\ glean'.pc = "clear2")
               => (~glean'.userData /\ ~glean'.pending)
    ]_vars

\* The init task of a first run with uploadEnabled false has returned.
WitnessC16 ==
  /\ glean.run # 0
  /\ glean.body[glean.run] = [kind |-> "init", flag |-> FALSE]
  /\ glean.fresh
  /\ glean.pc = "end"
  /\ glean.clientId = "known"
  /\ glean.firstRunDate = "d2"
  /\ ~glean.userData

\* C17 as the specification states it: once the init task has run with
\* uploadEnabled false over a storage without client_id, no ping is ever
\* enqueued with a client_id other than KNOWN_CLIENT_ID.
ClaimC17Original ==
  [][glean'.fresh => glean'.submitted \in {"no", "known"}]_vars

\* C17: once the init task has run with uploadEnabled false over a storage
\* without client_id, and as long as no setUploadEnabled(true) has taken
\* effect since, no ping is enqueued with a client_id other than
\* KNOWN_CLIENT_ID.
ClaimC17 ==
  [][(glean'.fresh /\ ~glean'.enabledSince) => glean'.submitted \in {"no", "known"}]_vars

\* After such an initialization, with upload never enabled since, a ping
\* has been enqueued: it carries KNOWN_CLIENT_ID.
WitnessC17 ==
  /\ glean.fresh
  /\ ~glean.enabledSince
  /\ glean.submitted = "known"

\* Upload is disabled: Context.uploadEnabled is false, or clearMetrics has
\* set it to true for the time it writes client_id and first_run_date.
UploadDisabled ==
  /\ glean.initialized
  /\ glean.uploadEnabled = "false" \/ glean.pc \in {"clear3", "clear4"}

\* C18: while upload is disabled no recording stores metric data other
\* than the reserved client_id and first_run_date.
ClaimC18 ==
  [][UploadDisabled => (glean'.userData => glean.userData)]_vars

(***************************************************************************)
(* Reading back what record has stored.                                    *)
(***************************************************************************)

\* What getMetric returns for ping p once value v has been recorded to
\* metric m in the present database.
ReadBack(m, v, p) == Plain(getMetric(record(DB, m, v), p, m).ret)

\* C21, as stated: for every valid value v and enabled metric, after
\* record(metric, v), getMetric(ping, metric) for each ping of the metric's
\* sendInPings equals metric.payload(v), whatever the type of the metric.
ClaimC21Original ==
  \A m \in Metrics, v \in {"true", "false"}, t \in MetricTypes :
    ~m.disabled =>
      \A p \in m.sendInPings : ReadBack(m, v, p) = payload(t, v)

\* C21, amended: for every valid value v and enabled metric, after
\* record(metric, v), getMetric(ping, metric) for each ping of the metric's
\* sendInPings returns the inner value v itself and deletes nothing; this is
\* metric.payload(v) for the types whose payload is their inner value.
ClaimC21 ==
  \A m \in Metrics, v \in {"true", "false"} :
    ~m.disabled =>
      \A p \in m.sendInPings :
        /\ ReadBack(m, v, p) = Plain(v)
        /\ ReadBack(m, v, p) = payload("boolean", v)
        /\ ~getMetric(record(DB, m, v), p, m).log

\* A recorded value has been read back from the second ping of a metric.
WitnessC21 ==
  /\ dbCall.op = "getMetric"
  /\ dbCall.ping = "p2"
  /\ dbCall.ret \in {"true", "false"}
  /\ ~dbCall.log

(***************************************************************************)
(* Error accounting.                                                       *)
(***************************************************************************)

\* The database after two attempts to set metric m to a value that is no
\* boolean.
TwoInvalidSets(m, up) == setSync(setSync(DB, m, "bogus", up), m, "bogus", up)

\* C27, as stated: n invalid record attempts on metric m increase
\* testGetNumRecordedErrors(m, r) by exactly n, for every metric m.
ClaimC27Original ==
  \A m \in Metrics, up \in BOOLEAN :
    \A p \in m.sendInPings :
      /\ testGetNumRecordedErrors(setSync(DB, m, "bogus", up), m, p)
           = testGetNumRecordedErrors(DB, m, p) + 1
      /\ testGetNumRecordedErrors(TwoInvalidSets(m, up), m, p)
           = testGetNumRecordedErrors(DB, m, p) + 2

\* C27, amended: n invalid record attempts on a metric m that is not
\* disabled, made while upload is enabled, increase
\* testGetNumRecordedErrors(m, r) by exactly n in every ping of m and leave
\* the stored values alone; on a disabled metric, or while upload is
\* disabled, an invalid attempt counts no error; a valid attempt counts none.
ClaimC27 ==
  \A m \in Metrics, up \in BOOLEAN, p \in PingNames :
    LET before == testGetNumRecordedErrors(DB, m, p)
        once == testGetNumRecordedErrors(setSync(DB, m, "bogus", up), m, p)
        twice == testGetNumRecordedErrors(TwoInvalidSets(m, up), m, p)
    IN /\ (shouldRecord(m, up) /\ p \in m.sendInPings) => once = before + 1 /\ twice = before + 2
       /\ (~shouldRecord(m, up) \/ p \notin m.sendInPings) => once = before /\ twice = before
       /\ TwoInvalidSets(m, up).store = dbStore
       /\ testGetNumRecordedErrors(setSync(DB, m, "true", up), m, p) = before

\* An invalid set has been counted for the first ping and not for the second.
WitnessC27 ==
  /\ dbCall.op = "set"
  /\ ~dbCall.disabled
  /\ testGetNumRecordedErrors(DB, NoCall, "p1") = 1
  /\ testGetNumRecordedErrors(DB, NoCall, "p2") = 0

(***************************************************************************)
(* The transition of upload-enabled from false to true.                    *)
(***************************************************************************)

\* The running task is the task of a setUploadEnabled(true).
EnableTask(g) == g.run \in Ids /\ g.body[g.run].kind = "upload" /\ g.body[g.run].flag

\* C30: on the transition uploadEnabled false -> true the core metrics are
\* re-derived: the task of setUploadEnabled(true) that finds upload disabled
\* sets upload enabled and goes on to initializeClientId, which finds
\* KNOWN_CLIENT_ID or nothing and stores a newly generated UUID, and then to
\* initializeFirstRunDate, which leaves a stored first_run_date unchanged.
ClaimC30 ==
  [][/\ (glean'.run # glean.run /\ EnableTask(glean') /\ glean.uploadEnabled = "false")
          => (glean'.pc = "clientId" /\ glean'.uploadEnabled = "true"
              /\ glean.clientId = "known")
     /\ (EnableTask(glean) /\ glean.pc = "clientId" /\ glean'.pc # glean.pc)
          => (/\ glean.clientId \in {"none", "known"}
              /\ glean'.clientId = "uuid"
              /\ glean'.pc = "firstRunDate")
     /\ (EnableTask(glean) /\ glean.pc = "firstRunDate" /\ glean'.pc # glean.pc)
          => (/\ glean'.clientId = "uuid"
              /\ glean'.uploadEnabled = "true"
              /\ glean'.pc = "end"
              /\ glean.firstRunDate # "none"
                   => glean'.firstRunDate = glean.firstRunDate /\ glean'.firstRunDate = glean.prevDate)]_vars

\* setUploadEnabled(true) has replaced KNOWN_CLIENT_ID by a UUID and has kept
\* the first_run_date that was stored.
WitnessC30 ==
  /\ EnableTask(glean)
  /\ glean.pc = "end"
  /\ glean.enabledSince
  /\ glean.clientId = "uuid"
  /\ glean.prevDate # "none"
  /\ glean.firstRunDate = glean.prevDate

(***************************************************************************)
(* The order of the init task.                                             *)
(***************************************************************************)

\* The running task is the init task, handed upload-enabled `flag`.
InitRuns(g, flag) == g.run \in Ids /\ g.body[g.run] = [kind |-> "init", flag |-> flag]

\* C28: during initialization the pending-pings scan happens after the
\* reconciliation of upload-enabled: it is the last step of the init task,
\* Context.uploadEnabled then is what initialize was handed, and with upload
\* disabled the scan finds no ping to enqueue, the stored pings being
\* deleted and KNOWN_CLIENT_ID stored by then; the events database is
\* initialized only with Context.uploadEnabled set to that value.
ClaimC28 ==
  [][/\ glean'.scan # glean.scan
          => \E flag \in BOOLEAN :
               /\ InitRuns(glean', flag)
               /\ glean'.pc = "end"
               /\ glean'.eventsInit # "no"
               /\ glean'.uploadEnabled = (IF flag THEN "true" ELSE "false")
               /\ glean'.scan = (IF glean'.pending THEN "pings" ELSE "empty")
               /\ ~flag => (glean'.scan = "empty" /\ glean'.clientId = "known")
     /\ glean'.eventsInit # glean.eventsInit
          => \E flag \in BOOLEAN :
               /\ InitRuns(glean', flag)
               /\ glean'.initialized
               /\ glean.scan = "no"
               /\ glean'.eventsInit = (IF flag THEN "true" ELSE "false")
               /\ glean'.uploadEnabled = glean'.eventsInit]_vars

\* An init task handed upload disabled has deleted the pings a session with
\* upload enabled had left, and then has scanned and found none.
WitnessC28 ==
  /\ InitRuns(glean, FALSE)
  /\ glean.delSent
  /\ glean.pc = "end"
  /\ glean.scan = "empty"
  /\ glean.eventsInit = "false"

(***************************************************************************)
(* flushInit and the tasks enqueued before it.                             *)
(***************************************************************************)

\* The place of task i in the order of execution of the sync dispatcher.
PlaceOf(order, i) == CHOOSE p \in DOMAIN order : order[p] = i

\* The async dispatcher: flushInit changes nothing unless the dispatcher is
\* Uninitialized, and no task enqueued before a flushInit starts while the
\* task handed to that flushInit has not started.
FlushInitFirst ==
  [][/\ state # "Uninitialized"
          => \A hasTask \in BOOLEAN : flushInit(D, Cmd("InitTask", nextId), hasTask) = D
     /\ \A i \in Ids, j \in Ids :
          (/\ j < i
           /\ task'[i].kind = "InitTask" /\ task[i].st \in {"new", "queued"}
           /\ task[j].st = "queued")
            => task'[j].st \notin {"running", "done"}]_vars

\* C29: flushInit changes nothing unless the dispatcher is Uninitialized, and
\* the task handed to flushInit is executed before every task that was
\* enqueued before that flushInit; stated here for the sync dispatcher.
ClaimC29 ==
  [][/\ syncState # "Uninitialized"
          => \A hasTask \in BOOLEAN :
               SyncFlushInit(S, Cmd("InitTask", syncNextId), hasTask, {}) = S
     /\ \A i \in Ids, j \in Ids :
          (/\ j < i
           /\ syncTask'[i].kind = "InitTask" /\ syncTask[i].st \in {"new", "queued"}
           /\ syncTask[j].st = "queued" /\ syncTask'[j].st = "done")
            => (/\ syncTask'[i].st = "done"
                /\ PlaceOf(syncOrder', i) < PlaceOf(syncOrder', j))]_vars

(***************************************************************************)
(* The payloads the pings maker hands to the pings database.               *)
(***************************************************************************)

\* The last step was a collection that recorded a ping.
PingRecorded == Len(pm'.recorded) = Len(pm.recorded) + 1

\* C22: no metric whose identifier starts with the reserved prefix appears
\* in the metrics section of a payload, whatever lifetime it is stored in,
\* neither in a recorded payload nor in what getPingMetrics returns.
ClaimC22 ==
  /\ \A i \in DOMAIN pm.recorded : \A m \in pm.recorded[i].metrics : ~m.key.reserved
  /\ \A clearing \in BOOLEAN : \A m \in getPingMetrics(pm, clearing).ret : ~m.key.reserved

\* A ping has been recorded with a metric in its payload while a reserved
\* metric of the user lifetime is stored for it.
WitnessC22 ==
  /\ pm.recorded # <<>>
  /\ pm.recorded[Len(pm.recorded)].metrics # {}
  /\ pm.store[[lifetime |-> "user", reserved |-> TRUE]] # 0

\* C23: whenever a ping is submitted the ping lifetime metrics stored for it
\* are cleared, and a value recorded with ping lifetime appears in at most
\* one recorded payload.
ClaimC23 ==
  [][PingRecorded =>
       /\ \A k \in PMKeys : k.lifetime = "ping" => pm'.store[k] = 0
       /\ \A k \in PMKeys : k.lifetime # "ping" => pm'.store[k] = pm.store[k]
       /\ \A i \in DOMAIN pm.recorded :
            \A m \in pm.recorded[i].metrics :
              m.key.lifetime = "ping" => m \notin pm'.recorded[Len(pm'.recorded)].metrics]_vars

\* Two pings are recorded, the first with a ping lifetime metric, the second
\* with a metric of another lifetime only.
WitnessC23 ==
  /\ Len(pm.recorded) = 2
  /\ \E m \in pm.recorded[1].metrics : m.key.lifetime = "ping"
  /\ pm.recorded[2].metrics # {}
  /\ \A m \in pm.recorded[2].metrics : m.key.lifetime # "ping"

\* C24: the collection of a ping with no stored metric, no stored event and
\* sendIfEmpty = false changes nothing: no ping is recorded, and neither the
\* sequence number nor the start time moves.
ClaimC24 ==
  ((\A k \in PMKeys : pm.store[k] = 0) /\ ~pm.events)
    => /\ \A throws \in BOOLEAN : collectAndStorePing(pm, FALSE, throws) = pm
       /\ ~collectPing(pm, FALSE).payload.some

\* The storage of the ping is empty after a ping was recorded: the next
\* submission with sendIfEmpty = false is the no-op.
WitnessC24 ==
  /\ pm.recorded # <<>>
  /\ \A k \in PMKeys : pm.store[k] = 0
  /\ ~pm.events
  /\ pm.seqStored = 1
  /\ pm.built < MaxPings

\* Recorded ping i + 1 was collected right after recorded ping i: no
\* clearAll and no collection dropped by the plugin came between them.
Consecutive(i) ==
  /\ pm.recorded[i + 1].epoch = pm.recorded[i].epoch
  /\ pm.recorded[i + 1].nth = pm.recorded[i].nth + 1

ClaimC37 ==
  [][/\ (pm'.recorded = pm.recorded /\ pm'.epoch = pm.epoch)
          => pm'.seqStored = pm.seqStored
     /\ \A i \in DOMAIN pm'.recorded :
          (i + 1 \in DOMAIN pm'.recorded /\ pm'.recorded[i + 1].epoch = pm'.recorded[i].epoch)
            => pm'.recorded[i + 1].seq = pm'.recorded[i].seq + 1]_vars

\* C38: on an async platform boolean.set(value) records through the
\* dispatcher, as quantity.set does: the call launches a task, and nothing
\* is stored within the call unless by a task the dispatcher starts in it.
ClaimC38 ==
  [][glean'.call \in {"booleanSet", "quantitySet"}
       => /\ nextId' = nextId + 1
          /\ glean'.userData # glean.userData => glean'.run # glean.run]_vars

(***************************************************************************)
(* The async dispatcher at rest.                                           *)
(***************************************************************************)

\* Nothing is left to run by itself: no task is in flight and the
\* microtask queue is empty.
AtRest == inflight = {} /\ micro = <<>>

\* C33: the async dispatcher never rests in Idle with a non-empty queue, nor
\* in Processing with no execute loop running, so that every accepted task
\* that is not removed is eventually executed.
ClaimC33 ==
  AtRest => /\ ~(state = "Idle" /\ queue # <<>>)
            /\ state # "Processing"

\* A Shutdown command is waiting in the queue.
ShutdownQueued(q) == \E i \in DOMAIN q : q[i].cmd = "Shutdown"

\* C34: a shutdown() call made while the dispatcher is not in Shutdown
\* enqueues a Shutdown command (or the command has executed within the call),
\* also when Uninitialized with a full pre-init queue; and a queued Shutdown
\* command leaves the queue only by executing, which sets the Shutdown state.
ClaimC34 ==
  [][/\ ("callShutdown" \in ev' /\ state # "Shutdown")
          => (state' = "Shutdown" \/ ShutdownQueued(queue'))
     /\ (ShutdownQueued(queue) /\ ~ShutdownQueued(queue')) => state' = "Shutdown"
    ]_vars

(***************************************************************************)
(* DispatcherSync: what Shutdown and Clear leave to run.                   *)
(***************************************************************************)

\* The plain tasks and test tasks enqueued before the Clear command that is
\* first to execute: the ones ahead of a Clear command that waits in a queue,
\* or every waiting one when the Clear command is yet to be enqueued.
EnqueuedBeforeClear ==
  LET Pos(q) == {k \in DOMAIN q : q[k].cmd = "Clear"}
      Ahead(q) == {q[j].id : j \in {k \in DOMAIN q : /\ q[k].cmd \in {"Task", "TestTask"}
                                                    /\ \A c \in Pos(q) : k < c}}
  IN IF Pos(preInitQueue) \cup Pos(syncQueue) = {}
     THEN IdsOf(preInitQueue \o syncQueue, {"Task", "TestTask"})
     ELSE (IF Pos(preInitQueue) = {} THEN {} ELSE Ahead(preInitQueue))
            \cup (IF Pos(syncQueue) = {} THEN {} ELSE Ahead(syncQueue))

ClaimC36 ==
  [][("callInitialize" \in syncEv' /\ "invalid" \notin syncEv')
       => /\ contextInitialized'
          /\ ~contextInitialized =>
               \E i \in Ids : syncTask'[i].kind = "InitTask" /\ syncTask'[i].st = "done"
    ]_vars

(***************************************************************************)
(* Exponential buckets.                                                    *)
(***************************************************************************)

\* C31: the exponential bucket edges computed from (min, max, bucketCount)
\* start at 0 and grow strictly, every value of [0, max] lies in a bucket,
\* and the lookup of a non-negative sample does not fail: it returns the
\* minimum of the bucket that holds the sample.
ClaimC31 ==
  LET r == bk.bucketRanges
  IN r # <<>> =>
       /\ r = exponentialRange(bk.min, bk.max, bk.bucketCount)
       /\ r[1] = 0
       /\ \A i \in 1..(Len(r) - 1) : r[i] < r[i + 1]
       /\ \A v \in 0..bk.max : binarySearch(r, v) # -1
       /\ bk.sample >= 0 =>
            /\ ~bk.thrown
            /\ bk.ret = r[bk.limit + 1]
            /\ bk.ret <= bk.sample
            /\ bk.limit + 1 < Len(r) => bk.sample < r[bk.limit + 2]

\* A sample of a distribution with at least four edges found in a bucket
\* past the second one, with edges that were stepped by 1 beyond max.
WitnessC31 ==
  /\ Len(bk.bucketRanges) >= 4
  /\ bk.limit >= 2
  /\ ~bk.thrown
  /\ bk.bucketRanges[Len(bk.bucketRanges)] > bk.max
  /\ bk.max > 0

(***************************************************************************)
(* The timing distribution.                                                *)
(***************************************************************************)

\* C40: after k valid samples have been accumulated into a timing
\* distribution the bucket counts of the stored distribution sum to k.
ClaimC40 ==
  LET RECURSIVE Sum(_)
      Sum(bs) == IF bs = {} THEN 0
                 ELSE LET b == CHOOSE x \in bs : TRUE IN td.stored[b] + Sum(bs \ {b})
  IN Sum(Buckets) = td.accumulated

\* A step in which the dispatcher runs a task: td'.last is the task.
TdRan == td'.launched - Len(td'.queue) > td.launched - Len(td.queue)

\* C32: with upload enabled the task of accumulateSamples(samples) reports
\* every negative sample as an InvalidValue error and every sample longer
\* than the maximum as an InvalidOverflow error, and no other error.
ClaimC32 ==
  [][(TdRan /\ td'.last.kind = "samples" /\ td.uploadEnabled) =>
       LET samples == td'.last.samples
           negative == Cardinality({i \in DOMAIN samples : samples[i] < 0})
           tooLong == Cardinality({i \in DOMAIN samples : samples[i] > MAX_SAMPLE_TIME})
       IN td'.errors = [td.errors EXCEPT !["InvalidValue"] = @ + negative,
                                         !["InvalidOverflow"] = @ + tooLong]
    ]_vars

\* C39: a cancel(id) made after start() returned id leaves the timer not
\* running: with upload enabled the task of a later stopAndAccumulate(id)
\* stores nothing and reports one InvalidValue error.
ClaimC39 ==
  [][(TdRan /\ td'.last.kind = "stop" /\ td'.last.afterCancel /\ td.uploadEnabled) =>
       /\ td'.stored = td.stored
       /\ td'.accumulated = td.accumulated
       /\ td'.errors = [td.errors EXCEPT !["InvalidValue"] = @ + 1]
    ]_vars

====
